---- MODULE Spec2Model ----
(***************************************************************************)
(* GlobeTrek travel planner (src/main.py, src/globe.py, src/test.py).      *)
(*                                                                         *)
(* The specifications share the variables below:                           *)
(*   Spec        the Streamlit session: the two conversation histories and *)
(*               the handlers that write them;                             *)
(*   SpecPdf     get_pdf_download_link applied to bounded markdown inputs; *)
(*   SpecImages  display_images_from_markdown applied to bounded inputs;   *)
(*   SpecFilename the PDF file name of the history display loop;           *)
(*   SpecAmadeus an AmadeusFlightToolsSDK object and the calls made on it; *)
(*   SpecStartup the start of the script under every set of credentials;   *)
(*   SpecFair    Spec with the agent calls ending;                         *)
(*   SpecRender  the session with the whole history display loop;          *)
(*   SpecQuery   construct_query applied to bounded forms.                 *)
(*                                                                         *)
(* A Python string is modelled as a sequence of tokens, so "" is << >>.    *)
(***************************************************************************)
EXTENDS Integers, Sequences, FiniteSets, TLC

VARIABLES
    groq_api_key,     \* os.environ.get("GROQ_API_KEY") is set
    messages,         \* st.session_state.messages
    chat_messages,    \* st.session_state.chat_messages
    destination,      \* the "Destination" text input of the form
    start_date,       \* the "Departure Date" date input
    end_date,         \* the "Return Date" date input
    pc,               \* where the script run stands: idle / plan_call / chat_call / render
    user_prompt,      \* the prompt of the agent call in flight ("" when none is)
    st_error,         \* number of st.error messages shown by the handlers
    agent_runs,       \* number of globe_hopper_agent.run / chat_agent.run calls made
    unavailable,      \* the run showed "GROQ API key is missing ... unavailable"
    displayed,        \* the pairs shown by the last run of the history display loop
    rendered,         \* SpecRender: what the display loop of the run in progress drew
    pdf_in,           \* SpecPdf: the arguments of get_pdf_download_link
    pdf_out,          \* SpecPdf: what the call produced
    img_in,           \* SpecImages: the arguments of display_images_from_markdown
    img_out,          \* SpecImages: what the call produced
    fn_in,            \* SpecFilename: destination and datetime.now()
    fn_out,           \* SpecFilename: the file name built
    amadeus,          \* SpecAmadeus: the AmadeusFlightToolsSDK object (client, error_message)
    sdk_log,          \* SpecAmadeus: the calls made to the amadeus Client
    tool_out,         \* SpecAmadeus: how the last tool call ended
    environ,          \* SpecStartup: the credentials in os.environ
    startup,          \* SpecStartup: what the start of the script did
    q_in,             \* SpecQuery: the fields of the form
    q_out             \* SpecQuery: the prompt construct_query built

session_vars == <<groq_api_key, messages, chat_messages, destination, start_date,
                  end_date, pc, user_prompt, st_error, agent_runs, unavailable,
                  displayed, rendered>>
pdf_vars == <<pdf_in, pdf_out>>
img_vars == <<img_in, img_out>>
fn_vars == <<fn_in, fn_out>>
am_vars == <<amadeus, sdk_log, tool_out>>
su_vars == <<environ, startup>>
q_vars == <<q_in, q_out>>
vars == <<session_vars, pdf_vars, img_vars, fn_vars, am_vars, su_vars, q_vars>>

\* What the actions of one specification leave alone.
outside_session == <<pdf_vars, img_vars, fn_vars, am_vars, su_vars, q_vars>>
outside_pdf == <<session_vars, img_vars, fn_vars, am_vars, su_vars, q_vars>>
outside_images == <<session_vars, pdf_vars, fn_vars, am_vars, su_vars, q_vars>>
outside_filename == <<session_vars, pdf_vars, img_vars, am_vars, su_vars, q_vars>>
outside_amadeus == <<session_vars, pdf_vars, img_vars, fn_vars, su_vars, q_vars>>
outside_startup == <<session_vars, pdf_vars, img_vars, fn_vars, am_vars, q_vars>>
outside_query == <<session_vars, pdf_vars, img_vars, fn_vars, am_vars, su_vars>>

None == [none |-> TRUE]

(***************************************************************************)
(* Bounds of the session model.                                            *)
(***************************************************************************)
MaxPlans == 2
MaxChats == 1

Destinations == {<< >>, <<"New", " ", "York">>}
ChatInputs == {<< >>, <<"best", "beaches?">>}
\* An answer is markdown text, one token a line: an image reference and a
\* paragraph.
AgentReplies == {<<"![Louvre](u1)", "Enjoy">>}
\* What agent.run returns: an object with a content attribute, or one without.
AgentResponses ==
    {[has_content |-> TRUE, content |-> r] : r \in AgentReplies}
        \cup {[has_content |-> FALSE, content |-> << >>]}

(***************************************************************************)
(* Session state and handlers (Spec).                                      *)
(***************************************************************************)
Turn(role, content) == [role |-> role, content |-> content]

\* A datetime.date, as st.date_input and datetime.now() give it.
Date(year, month, day) == [year |-> year, month |-> month, day |-> day]

DigitStr == <<"0", "1", "2", "3", "4", "5", "6", "7", "8", "9">>
Digit(n) == DigitStr[n + 1]
\* %d and %m: two digits, zero padded; %Y: four digits.
Pad2(n) == <<Digit((n \div 10) % 10), Digit(n % 10)>>
Pad4(n) == <<Digit((n \div 1000) % 10), Digit((n \div 100) % 10)>> \o Pad2(n)
MonthAbbr ==
    <<"Jan", "Feb", "Mar", "Apr", "May", "Jun", "Jul", "Aug", "Sep", "Oct", "Nov", "Dec">>

\* date.strftime('%b %d, %Y')
strftime_b_d_Y(date) ==
    <<MonthAbbr[date.month], " ">> \o Pad2(date.day) \o <<", ">> \o Pad4(date.year)
\* datetime.now().strftime("%Y%m%d")
strftime_Ymd(date) == Pad4(date.year) \o Pad2(date.month) \o Pad2(date.day)

\* f"{start_date.strftime('%b %d, %Y')} to {end_date.strftime('%b %d, %Y')}"
travel_dates_label(start, end) ==
    strftime_b_d_Y(start) \o <<" to ">> \o strftime_b_d_Y(end)

\* What st.date_input can hold; it is never empty (it starts at today's date).
DateInputs == {Date(2025, 1, 5), Date(2025, 12, 31)}
Today == Date(2025, 1, 5)
\* The date pairs the user sets: return after departure, and return before it.
DateRanges == {<<Date(2025, 1, 5), Date(2025, 12, 31)>>,
               <<Date(2025, 12, 31), Date(2025, 1, 5)>>}
\* bool(date): a date object is always truthy.
DateGiven(date) == date \in DateInputs

\* The fields of the travel form.
Form(origin, dest, start, end, travelers, budget_option, interests, accommodation,
     include_images, additional_notes) ==
    [origin |-> origin, destination |-> dest, start_date |-> start, end_date |-> end,
     travelers |-> travelers, budget_option |-> budget_option, interests |-> interests,
     accommodation |-> accommodation, include_images |-> include_images,
     additional_notes |-> additional_notes]

BudgetOptions ==
    {"Budget - Up to 50,000", "Mid-range - 50,000 to 1,50,000", "Luxury - Above 1,50,000"}

budget_map ==
    [o \in BudgetOptions |->
        CASE o = "Budget - Up to 50,000" -> "under 50,000"
          [] o = "Mid-range - 50,000 to 1,50,000" -> "50,000-1,50,000"
          [] o = "Luxury - Above 1,50,000" -> "over 1,50,000"]

\* budget_map.get(budget_option, "flexible")
budget_str(budget_option) ==
    IF budget_option \in DOMAIN budget_map THEN budget_map[budget_option] ELSE "flexible"

\* ', '.join(interests)
RECURSIVE join(_, _)
join(sep, items) ==
    IF items = << >> THEN << >>
    ELSE IF Len(items) = 1 THEN items
    ELSE <<Head(items), sep>> \o join(sep, Tail(items))

ImagesRequest ==
    ". Please include relevant images of destinations, attractions, and accommodations where appropriate."
ClosingExa ==
    ". Please include flight options, accommodations, daily activities, and all costs in INR. Use Exa to search for flight information, prices, and schedules."
ClosingPlain ==
    ". Please include flight options, accommodations, daily activities, and all costs in INR."

Query_notesfirst(form, asks_images, closing) ==
    IF form.destination = << >> THEN << >>
    ELSE <<"Plan a trip to ">> \o form.destination
             \o <<" for ", Digit(form.travelers), " travelers">>
             \o (IF form.origin # << >> THEN <<" departing from ">> \o form.origin
                 ELSE << >>)
             \o <<" from ">> \o travel_dates_label(form.start_date, form.end_date)
             \o <<" with a ", budget_str(form.budget_option), " budget in INR">>
             \o (IF form.additional_notes # << >>
                 THEN <<". Additional notes: ">> \o form.additional_notes ELSE << >>)
             \o (IF form.interests # << >>
                 THEN <<". We're interested in: ">> \o join(", ", form.interests)
                 ELSE << >>)
             \o (IF form.accommodation # "Any"
                 THEN <<". We prefer staying in ", form.accommodation>> ELSE << >>)
             \o (IF asks_images /\ form.include_images THEN <<ImagesRequest>> ELSE << >>)
             \o <<closing>>

\* The body the three copies of construct_query share; they differ in the
\* image request (src/test.py only) and in the closing sentence.
Query(form, asks_images, closing) ==
    IF form.destination = << >> THEN << >>
    ELSE <<"Plan a trip to ">> \o form.destination
             \o <<" for ", Digit(form.travelers), " travelers">>
             \o (IF form.origin # << >> THEN <<" departing from ">> \o form.origin
                 ELSE << >>)
             \o <<" from ">> \o travel_dates_label(form.start_date, form.end_date)
             \o <<" with a ", budget_str(form.budget_option), " budget in INR">>
             \o (IF form.interests # << >>
                 THEN <<". We're interested in: ">> \o join(", ", form.interests)
                 ELSE << >>)
             \o (IF form.accommodation # "Any"
                 THEN <<". We prefer staying in ", form.accommodation>> ELSE << >>)
             \o (IF asks_images /\ form.include_images THEN <<ImagesRequest>> ELSE << >>)
             \o (IF form.additional_notes # << >>
                 THEN <<". Additional notes: ">> \o form.additional_notes ELSE << >>)
             \o <<closing>>

test_construct_query(form) == Query(form, TRUE, ClosingExa)
main_construct_query(form) == Query(form, FALSE, ClosingPlain)
globe_construct_query(form) == Query(form, FALSE, ClosingExa)

\* The form as it is first drawn, but for the destination and the dates.
DefaultForm(dest, start, end) ==
    Form(<< >>, dest, start, end, 2, "Budget - Up to 50,000",
         <<"Adventure", "Cultural">>, "Budget Hostels", TRUE, << >>)

\* construct_query of src/test.py in the session: the fields other than the
\* destination and the dates stand at their defaults.
construct_query(dest, start, end) == test_construct_query(DefaultForm(dest, start, end))

AppendUser_dropped(history, content) == history

\* st.session_state.messages.append({"role": "user", "content": user_prompt})
AppendUser(history, content) == Append(history, Turn("user", content))

AppendAssistant_overwrite(history, content) ==
    IF history = << >> THEN <<Turn("assistant", content)>>
    ELSE [history EXCEPT ![Len(history)] = Turn("assistant", content)]

\* st.session_state.messages.append({"role": "assistant", "content": ...})
AppendAssistant(history, content) == Append(history, Turn("assistant", content))

\* str(response.content) if hasattr(response, 'content') else "No response generated."
response_content(response) ==
    IF response.has_content THEN response.content ELSE <<"No response generated.">>

Pair(query, response) == [query |-> query, response |-> response]

DisplayPairs_withtrailing(history) ==
    [k \in 1..((Len(history) + 1) \div 2) |->
        Pair(history[2 * k - 1].content,
             IF 2 * k <= Len(history) THEN history[2 * k].content ELSE << >>)]

\* for i in range(0, len(messages), 2): if i+1 < len(messages): show the
\* pair (messages[i], messages[i+1]).
RECURSIVE DisplayLoop(_, _, _)
DisplayLoop(history, i, shown) ==
    IF i >= Len(history) THEN shown
    ELSE IF i + 1 < Len(history)
    THEN DisplayLoop(history, i + 2,
                     Append(shown, Pair(history[i + 1].content, history[i + 2].content)))
    ELSE DisplayLoop(history, i + 2, shown)

\* The history display loop, under "if st.session_state.messages:".
DisplayPairs(history) ==
    IF history = << >> THEN << >> ELSE DisplayLoop(history, 0, << >>)

SessionInit ==
    /\ groq_api_key \in BOOLEAN
    /\ messages = << >>
    /\ chat_messages = << >>
    /\ destination = << >>
    /\ start_date = Today
    /\ end_date = Today
    /\ agent_runs = 0
    /\ unavailable = FALSE
    /\ pc = "idle"
    /\ user_prompt = << >>
    /\ st_error = 0
    /\ displayed = << >>
    /\ rendered = << >>

\* A run of the script without the GROQ key: globe_hopper_agent and
\* chat_agent are None, each tab shows its st.error and draws no form, no
\* history and no input.
RunWithoutKey ==
    /\ pc = "idle"
    /\ ~groq_api_key
    /\ unavailable' = TRUE
    /\ UNCHANGED <<groq_api_key, messages, chat_messages, destination, start_date,
                   end_date, pc, user_prompt, st_error, agent_runs, displayed>>
    /\ UNCHANGED <<rendered, outside_session>>

\* The user edits the Destination field (a script rerun with the new value);
\* the form is drawn only when the agent exists.
EditDestination_pending ==
    /\ pc \in {"idle", "plan_call"}
    /\ groq_api_key
    /\ \E d \in Destinations : d # destination /\ destination' = d
    /\ UNCHANGED <<groq_api_key, messages, chat_messages, pc, user_prompt,
                   st_error, displayed>>
    /\ UNCHANGED <<agent_runs, start_date, end_date>>
    /\ UNCHANGED <<unavailable, rendered, outside_session>>

EditDestination ==
    /\ pc = "idle"
    /\ groq_api_key
    /\ \E d \in Destinations : d # destination /\ destination' = d
    /\ UNCHANGED <<groq_api_key, messages, chat_messages, pc, user_prompt,
                   st_error, displayed>>
    /\ UNCHANGED <<agent_runs, start_date, end_date>>
    /\ UNCHANGED <<unavailable, rendered, outside_session>>

\* The user edits the Departure Date or the Return Date; nothing orders them.
EditDates ==
    /\ pc = "idle"
    /\ groq_api_key
    /\ \E range \in DateRanges :
          /\ range # <<start_date, end_date>>
          /\ start_date' = range[1]
          /\ end_date' = range[2]
    /\ UNCHANGED <<groq_api_key, messages, chat_messages, destination, pc, user_prompt,
                   st_error, agent_runs, displayed>>
    /\ UNCHANGED <<unavailable, rendered, outside_session>>

GeneratePlan_ordered ==
    /\ pc = "idle"
    /\ groq_api_key
    /\ Len(messages) < 2 * MaxPlans
    /\ destination # << >> /\ DateGiven(start_date) /\ DateGiven(end_date)
    /\ start_date.year * 10000 + start_date.month * 100 + start_date.day
          <= end_date.year * 10000 + end_date.month * 100 + end_date.day
    /\ user_prompt' = construct_query(destination, start_date, end_date)
    /\ messages' = AppendUser(messages, construct_query(destination, start_date, end_date))
    /\ pc' = "plan_call"
    /\ UNCHANGED <<groq_api_key, chat_messages, destination, st_error, displayed>>
    /\ agent_runs' = agent_runs + 1
    /\ UNCHANGED <<start_date, end_date>>
    /\ UNCHANGED <<unavailable, rendered, outside_session>>

\* "Generate My Travel Plan" pressed with the presence check passing: the user
\* entry is appended and globe_hopper_agent.run(user_prompt) is entered.
GeneratePlan ==
    /\ pc = "idle"
    /\ groq_api_key
    /\ Len(messages) < 2 * MaxPlans
    /\ destination # << >> /\ DateGiven(start_date) /\ DateGiven(end_date)
    /\ user_prompt' = construct_query(destination, start_date, end_date)
    /\ messages' = AppendUser(messages, construct_query(destination, start_date, end_date))
    /\ pc' = "plan_call"
    /\ UNCHANGED <<groq_api_key, chat_messages, destination, st_error, displayed>>
    /\ agent_runs' = agent_runs + 1
    /\ UNCHANGED <<start_date, end_date>>
    /\ UNCHANGED <<unavailable, rendered, outside_session>>

\* The button pressed with an empty destination: nothing is appended.
GeneratePlanRejected ==
    /\ pc = "idle"
    /\ groq_api_key
    /\ destination = << >>
    /\ displayed' = DisplayPairs(messages)
    /\ UNCHANGED <<groq_api_key, messages, chat_messages, destination, pc,
                   user_prompt, st_error>>
    /\ UNCHANGED <<agent_runs, start_date, end_date>>
    /\ UNCHANGED <<unavailable, rendered, outside_session>>

\* globe_hopper_agent.run returns: the assistant entry is appended and the
\* script goes on to the display loop.
PlanAgentReturns ==
    /\ pc = "plan_call"
    /\ \E response \in AgentResponses :
          messages' = AppendAssistant(messages, response_content(response))
    /\ displayed' = DisplayPairs(messages')
    /\ pc' = "idle"
    /\ user_prompt' = << >>
    /\ UNCHANGED <<groq_api_key, chat_messages, destination, st_error>>
    /\ UNCHANGED <<agent_runs, start_date, end_date>>
    /\ UNCHANGED <<unavailable, rendered, outside_session>>

PlanAgentRaises_appends ==
    /\ pc = "plan_call"
    /\ st_error' = st_error + 1
    /\ messages' = AppendAssistant(messages, <<"No response generated.">>)
    /\ displayed' = DisplayPairs(messages')
    /\ pc' = "idle"
    /\ user_prompt' = << >>
    /\ UNCHANGED <<groq_api_key, chat_messages, destination>>
    /\ UNCHANGED <<agent_runs, start_date, end_date>>
    /\ UNCHANGED <<unavailable, rendered, outside_session>>

\* globe_hopper_agent.run raises: except Exception -> st.error, nothing appended.
PlanAgentRaises ==
    /\ pc = "plan_call"
    /\ st_error' = st_error + 1
    /\ displayed' = DisplayPairs(messages)
    /\ pc' = "idle"
    /\ user_prompt' = << >>
    /\ UNCHANGED <<groq_api_key, messages, chat_messages, destination>>
    /\ UNCHANGED <<agent_runs, start_date, end_date>>
    /\ UNCHANGED <<unavailable, rendered, outside_session>>

ChatSend_concurrent ==
    /\ pc \in {"idle", "plan_call"}
    /\ groq_api_key
    /\ Len(chat_messages) < 2 * MaxChats
    /\ \E user_message \in ChatInputs :
          /\ user_message # << >>
          /\ user_prompt' = user_message
          /\ chat_messages' = AppendUser(chat_messages, user_message)
    /\ displayed' = DisplayPairs(messages)
    /\ pc' = "chat_call"
    /\ UNCHANGED <<groq_api_key, messages, destination, st_error>>
    /\ agent_runs' = agent_runs + 1
    /\ UNCHANGED <<start_date, end_date>>
    /\ UNCHANGED <<unavailable, rendered, outside_session>>

\* "Send" pressed with a non-empty message: the user entry is appended and
\* chat_agent.run(user_message) is entered.
ChatSend_nokey ==
    /\ pc = "idle"
    /\ Len(chat_messages) < 2 * MaxChats
    /\ \E user_message \in ChatInputs :
          /\ user_message # << >>
          /\ user_prompt' = user_message
          /\ chat_messages' = AppendUser(chat_messages, user_message)
    /\ displayed' = DisplayPairs(messages)
    /\ pc' = "chat_call"
    /\ UNCHANGED <<groq_api_key, messages, destination, st_error>>
    /\ agent_runs' = agent_runs + 1
    /\ UNCHANGED <<start_date, end_date>>
    /\ UNCHANGED <<unavailable, rendered, outside_session>>

ChatSend ==
    /\ pc = "idle"
    /\ groq_api_key
    /\ Len(chat_messages) < 2 * MaxChats
    /\ \E user_message \in ChatInputs :
          /\ user_message # << >>
          /\ user_prompt' = user_message
          /\ chat_messages' = AppendUser(chat_messages, user_message)
    /\ displayed' = DisplayPairs(messages)
    /\ pc' = "chat_call"
    /\ UNCHANGED <<groq_api_key, messages, destination, st_error>>
    /\ agent_runs' = agent_runs + 1
    /\ UNCHANGED <<start_date, end_date>>
    /\ UNCHANGED <<unavailable, rendered, outside_session>>

\* chat_agent.run(...).content is obtained: the assistant entry is appended, st.rerun().
ChatAgentReturns ==
    /\ pc = "chat_call"
    /\ \E response \in AgentReplies :
          chat_messages' = AppendAssistant(chat_messages, response)
    /\ pc' = "idle"
    /\ user_prompt' = << >>
    /\ UNCHANGED <<groq_api_key, messages, destination, st_error,
                   displayed>>
    /\ UNCHANGED <<agent_runs, start_date, end_date>>
    /\ UNCHANGED <<unavailable, rendered, outside_session>>

\* chat_agent.run raises (or the result has no content): st.error, nothing appended.
ChatAgentRaises ==
    /\ pc = "chat_call"
    /\ st_error' = st_error + 1
    /\ pc' = "idle"
    /\ user_prompt' = << >>
    /\ UNCHANGED <<groq_api_key, messages, chat_messages, destination,
                   displayed>>
    /\ UNCHANGED <<agent_runs, start_date, end_date>>
    /\ UNCHANGED <<unavailable, rendered, outside_session>>

\* A script rerun that presses no button: the history display loop alone.
\* The loop hands each response to display_images_from_markdown and
\* get_pdf_download_link by value; neither touches st.session_state.
Rerender ==
    /\ pc = "idle"
    /\ groq_api_key
    /\ displayed' = DisplayPairs(messages)
    /\ UNCHANGED <<groq_api_key, messages, chat_messages, destination, pc,
                   user_prompt, st_error>>
    /\ UNCHANGED <<agent_runs, start_date, end_date>>
    /\ UNCHANGED <<unavailable, rendered, outside_session>>

Next ==
    \/ RunWithoutKey
    \/ EditDestination
    \/ EditDates
    \/ GeneratePlan
    \/ GeneratePlanRejected
    \/ PlanAgentReturns
    \/ PlanAgentRaises
    \/ ChatSend
    \/ ChatAgentReturns
    \/ ChatAgentRaises
    \/ Rerender

(***************************************************************************)
(* Markdown input of the renderer.  A line is its markdown kind and its     *)
(* text: "# t" (h1) .. "#### t" (h4), "- t" (ul), "1. t" (ol), plain text,  *)
(* "![alt](url)" (img), "" (blank) and "   " (ws).                          *)
(***************************************************************************)
MaxLines == 3

Line(kind, text) == [kind |-> kind, text |-> text, url |-> ""]
ImgLine(alt, url) == [kind |-> "img", text |-> alt, url |-> url]

HeadingKinds == {"h1", "h2", "h3", "h4"}
BlankKinds == {"blank", "ws"}
InlineKinds == {"text", "img"}
ItemKinds == {"ul", "ol"}

Marker(kind) ==
    CASE kind = "h1" -> "#" [] kind = "h2" -> "##" [] kind = "h3" -> "###"
      [] kind = "h4" -> "####" [] kind = "ul" -> "-" [] kind = "ol" -> "1."
      [] OTHER -> ""

\* The characters of one input line, as tokens.
RawLine(l) ==
    CASE l.kind = "blank" -> << >>
      [] l.kind = "ws" -> <<" ">>
      [] l.kind = "text" -> <<l.text>>
      [] l.kind = "img" -> <<"![", l.text, "](", l.url, ")">>
      [] OTHER -> <<Marker(l.kind), l.text>>

\* str.strip(): leading and trailing whitespace removed.
RECURSIVE strip(_)
strip(s) ==
    IF s = << >> THEN << >>
    ELSE IF Head(s) = " " THEN strip(Tail(s))
    ELSE IF s[Len(s)] = " " THEN strip(SubSeq(s, 1, Len(s) - 1))
    ELSE s

(***************************************************************************)
(* markdown.markdown(markdown_text) followed by BeautifulSoup(...): the     *)
(* element tree, built block by block.  Blank lines end a block; a hash     *)
(* header is an element of its own wherever it stands; a block that starts  *)
(* with list items is a list whose other lines continue the last item; a    *)
(* list block that follows a list is appended to it, its first item and the *)
(* item before it becoming loose (wrapped in <p>); anything else is a       *)
(* paragraph.                                                               *)
(***************************************************************************)
Elem(name, lines, items) == [name |-> name, lines |-> lines, items |-> items]
Item(lines, loose) == [lines |-> lines, loose |-> loose]

SiblingTags(kind) == IF kind = "ol" THEN {"ol", "ul"} ELSE {"ul"}

LastName(elems) == IF elems = << >> THEN "none" ELSE elems[Len(elems)].name

AddLineToLast(elems, l) ==
    [elems EXCEPT ![Len(elems)].lines = Append(@, l)]

AddLineToLastItem(elems, l) ==
    [elems EXCEPT ![Len(elems)].items =
        [@ EXCEPT ![Len(@)].lines = Append(@, l)]]

AddItemToLast(elems, l, loose) ==
    [elems EXCEPT ![Len(elems)].items =
        Append(IF loose THEN [@ EXCEPT ![Len(@)].loose = TRUE] ELSE @,
               Item(<<l>>, loose))]

ParseLine(st, l) ==
    LET last == LastName(st.elems) IN
    CASE l.kind \in BlankKinds -> [st EXCEPT !.cur = FALSE]
      [] l.kind \in HeadingKinds ->
            [elems |-> Append(st.elems, Elem(l.kind, <<l>>, << >>)), cur |-> FALSE]
      [] l.kind \in InlineKinds ->
            IF st.cur /\ last = "p"
            THEN [st EXCEPT !.elems = AddLineToLast(@, l)]
            ELSE IF st.cur /\ last \in ItemKinds
            THEN [st EXCEPT !.elems = AddLineToLastItem(@, l)]
            ELSE [elems |-> Append(st.elems, Elem("p", <<l>>, << >>)), cur |-> TRUE]
      [] l.kind \in ItemKinds ->
            IF st.cur /\ last = "p"
            THEN [st EXCEPT !.elems = AddLineToLast(@, l)]
            ELSE IF st.cur /\ last \in ItemKinds
            THEN [st EXCEPT !.elems = AddItemToLast(@, l, FALSE)]
            ELSE IF last \in SiblingTags(l.kind)
            THEN [elems |-> AddItemToLast(st.elems, l, TRUE), cur |-> TRUE]
            ELSE [elems |-> Append(st.elems,
                                   Elem(l.kind, << >>, <<Item(<<l>>, FALSE)>>)),
                  cur |-> TRUE]

RECURSIVE ParseLines(_, _)
ParseLines(st, lines) ==
    IF lines = << >> THEN st
    ELSE ParseLines(ParseLine(st, Head(lines)), Tail(lines))

\* markdown.markdown: the top-level elements of the document.
markdown(markdown_text) ==
    ParseLines([elems |-> << >>, cur |-> FALSE], markdown_text).elems

Tag(name, text, src) == [name |-> name, text |-> text, src |-> src]

\* The text a line contributes to the element that holds it.
LineText(l) ==
    CASE l.kind = "text" -> <<l.text>>
      [] l.kind = "img" -> << >>
      [] OTHER -> <<Marker(l.kind), l.text>>

RECURSIVE InlineText(_)
InlineText(lines) ==
    IF lines = << >> THEN << >>
    ELSE LineText(Head(lines)) \o InlineText(Tail(lines))

ItemText(lines) == <<Head(lines).text>> \o InlineText(Tail(lines))

RECURSIVE ImgTags(_)
ImgTags(lines) ==
    IF lines = << >> THEN << >>
    ELSE (IF Head(lines).kind = "img"
          THEN <<Tag("img", << >>, Head(lines).url)>> ELSE << >>)
         \o ImgTags(Tail(lines))

RECURSIVE ItemTags(_)
ItemTags(items) ==
    IF items = << >> THEN << >>
    ELSE LET it == Head(items) IN
         <<Tag("li", ItemText(it.lines), "")>>
         \o (IF it.loose THEN <<Tag("p", ItemText(it.lines), "")>> ELSE << >>)
         \o ImgTags(it.lines)
         \o ItemTags(Tail(items))

RECURSIVE ItemsText(_)
ItemsText(items) ==
    IF items = << >> THEN << >>
    ELSE ItemText(Head(items).lines) \o ItemsText(Tail(items))

ElemTags(e) ==
    CASE e.name \in HeadingKinds -> <<Tag(e.name, <<e.lines[1].text>>, "")>>
      [] e.name = "p" -> <<Tag("p", InlineText(e.lines), "")>> \o ImgTags(e.lines)
      [] OTHER -> <<Tag(e.name, ItemsText(e.items), "")>> \o ItemTags(e.items)

\* Every tag of the tree in document order.
RECURSIVE AllTags(_)
AllTags(elems) ==
    IF elems = << >> THEN << >>
    ELSE ElemTags(Head(elems)) \o AllTags(Tail(elems))

\* soup.find_all(names): the tags with one of the names, in document order.
find_all(soup, names) == SelectSeq(AllTags(soup), LAMBDA t : t.name \in names)

(***************************************************************************)
(* IEEE-754 double arithmetic of the image sizing.  A 53-bit significand    *)
(* does not fit the model checker's integers, so a natural number is a      *)
(* sequence of limbs in base 2^15, most significant first (0 is << >>).     *)
(***************************************************************************)
MantissaBits == 53
LimbBits == 15

RECURSIVE Pow2(_)
Pow2(n) == IF n = 0 THEN 1 ELSE 2 * Pow2(n - 1)

Base == Pow2(LimbBits)

RECURSIVE Normalize(_)
Normalize(x) ==
    IF x # << >> /\ Head(x) = 0 THEN Normalize(Tail(x)) ELSE x

\* x * k + carry, for 0 <= carry < k <= Base.
RECURSIVE BigMulSmall(_, _, _)
BigMulSmall(x, k, carry) ==
    IF x = << >> THEN (IF carry = 0 THEN << >> ELSE <<carry>>)
    ELSE LET v == x[Len(x)] * k + carry IN
         Append(BigMulSmall(SubSeq(x, 1, Len(x) - 1), k, v \div Base), v % Base)

\* Long division of x by d <= Base: the limbs of the quotient and the remainder.
RECURSIVE BigDivSmall(_, _, _, _)
BigDivSmall(x, d, rem, q) ==
    IF x = << >> THEN [q |-> Normalize(q), rem |-> rem]
    ELSE LET v == rem * Base + Head(x) IN
         BigDivSmall(Tail(x), d, v % d, Append(q, v \div d))

\* x * 2^n
RECURSIVE BigShiftLeft(_, _)
BigShiftLeft(x, n) ==
    IF n >= LimbBits THEN BigShiftLeft(Append(x, 0), n - LimbBits)
    ELSE BigMulSmall(x, Pow2(n), 0)

\* floor(x / 2^n)
RECURSIVE BigShiftRight(_, _)
BigShiftRight(x, n) ==
    IF x = << >> THEN << >>
    ELSE IF n >= LimbBits THEN BigShiftRight(SubSeq(x, 1, Len(x) - 1), n - LimbBits)
    ELSE BigDivSmall(x, Pow2(n), 0, << >>).q

\* x + 1
RECURSIVE BigIncrement(_)
BigIncrement(x) ==
    IF x = << >> THEN <<1>>
    ELSE IF x[Len(x)] < Base - 1 THEN [x EXCEPT ![Len(x)] = @ + 1]
    ELSE Append(BigIncrement(SubSeq(x, 1, Len(x) - 1)), 0)

BigOdd(x) == x # << >> /\ x[Len(x)] % 2 = 1

RECURSIVE IntBitLen(_)
IntBitLen(v) == IF v = 0 THEN 0 ELSE 1 + IntBitLen(v \div 2)

BigBitLen(x) == IF x = << >> THEN 0 ELSE (Len(x) - 1) * LimbBits + IntBitLen(Head(x))

RECURSIVE BigToInt(_)
BigToInt(x) ==
    IF x = << >> THEN 0
    ELSE BigToInt(SubSeq(x, 1, Len(x) - 1)) * Base + x[Len(x)]

\* floor(log2(n / d)) for n >= d, and for n < d.
RECURSIVE ExpUp(_, _)
ExpUp(n, d) == IF n < 2 * d THEN 0 ELSE 1 + ExpUp(n, 2 * d)
RECURSIVE ExpDown(_, _)
ExpDown(n, d) == IF 2 * n >= d THEN -1 ELSE ExpDown(2 * n, d) - 1

\* Round to nearest, ties to even: q is the quotient by `unit`, rem the remainder.
RoundNearestEven(q, rem, unit) ==
    IF 2 * rem > unit \/ (2 * rem = unit /\ BigOdd(q)) THEN BigIncrement(q) ELSE q

Float(mant, exp) == [mant |-> mant, exp |-> exp]

\* float(n) / float(d) for small positive integers: the double mant * 2^exp.
FloatDiv(n, d) ==
    LET e == IF n >= d THEN ExpUp(n, d) ELSE ExpDown(n, d)
        k == (MantissaBits - 1) - e
        dv == BigDivSmall(BigShiftLeft(<<n>>, k), d, 0, << >>)
    IN Float(RoundNearestEven(dv.q, dv.rem, d), 0 - k)

\* float(h) * x for a small positive integer h: the product rounded to a double.
FloatMulSmall(h, x) ==
    LET p == BigMulSmall(x.mant, h, 0)
        drop == BigBitLen(p) - MantissaBits
    IN IF drop <= 0 THEN Float(p, x.exp)
       ELSE LET dv == BigDivSmall(p, Pow2(drop), 0, << >>) IN
            Float(RoundNearestEven(dv.q, dv.rem, Pow2(drop)), x.exp + drop)

\* int(x) for a positive double below 2^31: the fraction is cut off.
FloatToInt(x) ==
    IF x.exp >= 0 THEN BigToInt(BigShiftLeft(x.mant, x.exp))
    ELSE BigToInt(BigShiftRight(x.mant, 0 - x.exp))

(***************************************************************************)
(* get_pdf_download_link: the reportlab elements built from the markdown.   *)
(***************************************************************************)
Paragraph(text, style) == [type |-> "Paragraph", text |-> text, style |-> style]
Spacer(height) == [type |-> "Spacer", height |-> height]
Image(width, height) == [type |-> "Image", width |-> width, height |-> height]

\* A text whose markup reportlab's paragraph parser rejects: Paragraph(...) raises.
BadTexts == {"<b>oops"}
ParagraphRaises(text) == \E i \in 1..Len(text) : text[i] \in BadTexts

\* elements = [] followed by "Add a header".
Header(dest, travel_dates) ==
    <<Paragraph(<<"Travel Itinerary to">> \o dest, "title_style"),
      Spacer("0.2*inch"),
      Paragraph(<<"Travel Dates:">> \o travel_dates, "subheading_style"),
      Spacer("0.3*inch")>>

TestTagNames == {"h1", "h2", "h3", "p", "ul", "li", "img"}
GlobeTagNames == {"h1", "h2", "h3", "p", "ul", "li"}

\* The text of the Paragraph a tag is turned into; "[bullet]" is U+2022.
BlockText(t) == IF t.name = "li" THEN <<"[bullet]">> \o t.text ELSE t.text

TagElements_ulblock(t) ==
    CASE t.name = "h1" -> <<Paragraph(t.text, "heading_style"), Spacer("0.1*inch")>>
      [] t.name = "h2" -> <<Paragraph(t.text, "section_style"), Spacer("0.1*inch")>>
      [] t.name = "h3" -> <<Paragraph(t.text, "day_style")>>
      [] t.name = "p" -> <<Paragraph(t.text, "normal_style"), Spacer("0.05*inch")>>
      [] t.name \in {"ul", "li"} -> <<Paragraph(BlockText(t), "bullet_style")>>
      [] OTHER -> << >>

\* The branches of the walk for the tags other than img.
TagElements(t) ==
    CASE t.name = "h1" -> <<Paragraph(t.text, "heading_style"), Spacer("0.1*inch")>>
      [] t.name = "h2" -> <<Paragraph(t.text, "section_style"), Spacer("0.1*inch")>>
      [] t.name = "h3" -> <<Paragraph(t.text, "day_style")>>
      [] t.name = "p" -> <<Paragraph(t.text, "normal_style"), Spacer("0.05*inch")>>
      [] t.name = "li" -> <<Paragraph(BlockText(t), "bullet_style")>>
      [] OTHER -> << >>

max_width == 400

image_height_swapped(w, h) == FloatToInt(FloatMulSmall(w, FloatDiv(max_width, h)))

\* height = int(float(pil_img.height) * float(max_width / float(pil_img.width)))
image_height(w, h) == FloatToInt(FloatMulSmall(h, FloatDiv(max_width, w)))

\* What requests.get and PILImage.open do for one url: the request raises
\* (timeout, connection error), answers with another status than 200, answers
\* with bytes PIL cannot open, or yields an image of width x height pixels.
Fetch(status, w, h) == [status |-> status, width |-> w, height |-> h]

ImageBranch_placeholder(fetched) ==
    CASE fetched.status = "ok" ->
            [elements |-> <<Image(max_width, image_height(fetched.width, fetched.height))>>,
             warned |-> FALSE]
      [] fetched.status = "non200" ->
            [elements |-> <<Paragraph(<<"[image]">>, "normal_style")>>, warned |-> FALSE]
      [] OTHER -> [elements |-> << >>, warned |-> TRUE]

\* The img branch: the elements added, and whether the except clause ran.
ImageBranch(fetched) ==
    CASE fetched.status = "ok" ->
            [elements |-> <<Image(max_width, image_height(fetched.width, fetched.height))>>,
             warned |-> FALSE]
      [] fetched.status = "non200" -> [elements |-> << >>, warned |-> FALSE]
      [] OTHER -> [elements |-> << >>, warned |-> TRUE]

Walked(raised, elements, warnings) ==
    [raised |-> raised, elements |-> elements, warnings |-> warnings]

RECURSIVE Walk_break(_, _, _, _)
Walk_break(tags, elements, warnings, net) ==
    IF tags = << >> THEN Walked(FALSE, elements, warnings)
    ELSE LET t == Head(tags) IN
         IF t.name = "img"
         THEN LET b == ImageBranch(net[t.src]) IN
              IF b.warned THEN Walked(FALSE, elements, warnings + 1)
              ELSE Walk_break(Tail(tags), elements \o b.elements, warnings, net)
         ELSE IF TagElements(t) # << >> /\ ParagraphRaises(BlockText(t))
         THEN Walked(TRUE, elements, warnings)
         ELSE Walk_break(Tail(tags), elements \o TagElements(t), warnings, net)

RECURSIVE Walk_skipbad(_, _, _, _)
Walk_skipbad(tags, elements, warnings, net) ==
    IF tags = << >> THEN Walked(FALSE, elements, warnings)
    ELSE LET t == Head(tags) IN
         IF t.name = "img"
         THEN LET b == ImageBranch(net[t.src]) IN
              Walk_skipbad(Tail(tags), elements \o b.elements,
                           warnings + (IF b.warned THEN 1 ELSE 0), net)
         ELSE IF TagElements(t) # << >> /\ ParagraphRaises(BlockText(t))
         THEN Walk_skipbad(Tail(tags), elements, warnings + 1, net)
         ELSE Walk_skipbad(Tail(tags), elements \o TagElements(t), warnings, net)

\* for element in soup.find_all([...]): ...  A Paragraph that raises ends the
\* call; an image that fails is skipped and the loop continues.
RECURSIVE Walk(_, _, _, _)
Walk(tags, elements, warnings, net) ==
    IF tags = << >> THEN Walked(FALSE, elements, warnings)
    ELSE LET t == Head(tags) IN
         IF t.name = "img"
         THEN LET b == ImageBranch(net[t.src]) IN
              Walk(Tail(tags), elements \o b.elements,
                   warnings + (IF b.warned THEN 1 ELSE 0), net)
         ELSE IF TagElements(t) # << >> /\ ParagraphRaises(BlockText(t))
         THEN Walked(TRUE, elements, warnings)
         ELSE Walk(Tail(tags), elements \o TagElements(t), warnings, net)

HeaderOnly == 4

\* for line in markdown_text.split('\n'): if line.strip(): Paragraph + Spacer
RECURSIVE FallbackLines(_, _)
FallbackLines(lines, w) ==
    IF lines = << >> THEN w
    ELSE LET line == RawLine(Head(lines)) IN
         IF strip(line) = << >> THEN FallbackLines(Tail(lines), w)
         ELSE IF ParagraphRaises(line) THEN Walked(TRUE, w.elements, w.warnings)
         ELSE FallbackLines(Tail(lines),
                  Walked(FALSE,
                         w.elements \o <<Paragraph(line, "normal_style"),
                                         Spacer("0.05*inch")>>,
                         w.warnings))

Fallback_strict(w, markdown_text) ==
    IF Len(w.elements) < HeaderOnly THEN FallbackLines(markdown_text, w) ELSE w

Fallback_uptofour(w, markdown_text) ==
    IF Len(SelectSeq(w.elements, LAMBDA e : e.type # "Spacer")) - 2 <= HeaderOnly
    THEN FallbackLines(markdown_text, w) ELSE w

\* if len(elements) <= 4: the raw lines are added as paragraphs.
Fallback(w, markdown_text) ==
    IF Len(w.elements) <= HeaderOnly THEN FallbackLines(markdown_text, w) ELSE w

Footer_swapped ==
    <<Paragraph(<<"Generated by GlobeTrek - Your AI Travel Companion">>, "Footer"),
      Spacer("0.5*inch")>>

\* "Add a footer"
Footer ==
    <<Spacer("0.5*inch"),
      Paragraph(<<"Generated by GlobeTrek - Your AI Travel Companion">>, "Footer")>>

Raised(warnings) == [raised |-> TRUE, warnings |-> warnings]
Href(filename, elements, warnings) ==
    [raised |-> FALSE, warnings |-> warnings,
     download |-> filename, document |-> elements]

\* The body of get_pdf_download_link from the walk on: `tags` is what find_all
\* returned, and build_ok tells whether doc.build(elements) returns or raises.
RenderTags(tags, markdown_text, filename, dest, travel_dates, net, build_ok) ==
    LET w == Walk(tags, Header(dest, travel_dates), 0, net) IN
    IF w.raised THEN Raised(w.warnings)
    ELSE LET f == Fallback(w, markdown_text) IN
         IF f.raised THEN Raised(f.warnings)
         ELSE IF ~build_ok THEN Raised(f.warnings)
         ELSE Href(filename, f.elements \o Footer, f.warnings)

\* The body shared by the two copies of get_pdf_download_link, which differ in
\* the tag names they look for.
RenderPdf(names, markdown_text, filename, dest, travel_dates, net, build_ok) ==
    RenderTags(find_all(markdown(markdown_text), names), markdown_text, filename,
               dest, travel_dates, net, build_ok)

\* src/test.py
get_pdf_download_link(markdown_text, filename, dest, travel_dates, net, build_ok) ==
    RenderPdf(TestTagNames, markdown_text, filename, dest, travel_dates, net, build_ok)

\* src/globe.py
globe_get_pdf_download_link(markdown_text, filename, dest, travel_dates, net, build_ok) ==
    RenderPdf(GlobeTagNames, markdown_text, filename, dest, travel_dates, net, build_ok)

(***************************************************************************)
(* SpecPdf: the two copies of get_pdf_download_link applied to every        *)
(* markdown text of at most MaxLines lines over PdfLines (and to the        *)
(* documented example), under every outcome of the image fetches and of     *)
(* doc.build.                                                               *)
(***************************************************************************)
PdfLines ==
    {Line("h1", "Paris Trip"), Line("h2", "Day 1"), Line("h3", "Morning"),
     Line("h4", "Notes"), Line("text", "Enjoy"), Line("text", "<b>oops"),
     Line("ul", "Visit the Louvre"), Line("ol", "Pack bags"), ImgLine("Louvre", "u1"), ImgLine("Seine", "u2"),
     Line("blank", ""), Line("ws", "")}

ParisTrip ==
    <<Line("h1", "Paris Trip"), Line("h2", "Day 1"),
      Line("ul", "Visit the Louvre"), Line("ul", "Eat croissants")>>

SeqsUpTo(S, n) == UNION {[1..k -> S] : k \in 0..n}

PdfTexts == SeqsUpTo(PdfLines, MaxLines) \cup {ParisTrip}

Urls == {"u1", "u2"}
Failed == Fetch("exception", 0, 0)
FetchOutcomes(u) ==
    IF u = "u1"
    THEN {Failed, Fetch("non200", 0, 0), Fetch("undecodable", 0, 0),
          Fetch("ok", 29, 145), Fetch("ok", 800, 600)}
    ELSE {Failed, Fetch("ok", 97, 97)}

UrlsOf(markdown_text) ==
    {markdown_text[i].url : i \in {j \in 1..Len(markdown_text) :
                                      markdown_text[j].kind = "img"}}

\* The fetch outcomes that matter to a text: one per url it refers to.
Nets(markdown_text) ==
    {n \in [Urls -> UNION {FetchOutcomes(u) : u \in Urls}] :
        \A u \in Urls : IF u \in UrlsOf(markdown_text)
                        THEN n[u] \in FetchOutcomes(u) ELSE n[u] = Failed}

PdfCall(markdown_text, net, build_ok) ==
    [markdown_text |-> markdown_text, filename |-> <<"Paris_itinerary_20250101.pdf">>,
     destination |-> <<"Paris">>, travel_dates |-> <<"Jan 01, 2025 to Jan 05, 2025">>,
     net |-> net, build_ok |-> build_ok]

SessionIdle ==
    /\ groq_api_key = TRUE
    /\ messages = << >>
    /\ chat_messages = << >>
    /\ destination = << >>
    /\ start_date = Today
    /\ end_date = Today
    /\ agent_runs = 0
    /\ unavailable = FALSE
    /\ pc = "idle"
    /\ user_prompt = << >>
    /\ st_error = 0
    /\ displayed = << >>
    /\ rendered = << >>

PdfIdle == pdf_in = None /\ pdf_out = None
ImagesIdle == img_in = None /\ img_out = None
FilenameIdle == fn_in = None /\ fn_out = None
AmadeusIdle == amadeus = None /\ sdk_log = << >> /\ tool_out = << >>
StartupIdle == environ = None /\ startup = None
QueryIdle == q_in = None /\ q_out = None

PdfInit ==
    /\ SessionIdle
    /\ ImagesIdle
    /\ FilenameIdle
    /\ AmadeusIdle
    /\ StartupIdle
    /\ QueryIdle
    /\ \E markdown_text \in PdfTexts, build_ok \in BOOLEAN :
          \E net \in Nets(markdown_text) :
              pdf_in = PdfCall(markdown_text, net, build_ok)
    /\ pdf_out = None

\* download_link = get_pdf_download_link(response, filename, destination, travel_dates)
\* as src/test.py defines it.
PdfExportTest ==
    /\ pdf_out = None
    /\ pdf_out' = [by |-> "test",
                   result |-> get_pdf_download_link(pdf_in.markdown_text,
                                  pdf_in.filename, pdf_in.destination,
                                  pdf_in.travel_dates, pdf_in.net, pdf_in.build_ok)]
    /\ UNCHANGED <<pdf_in, outside_pdf>>

\* The same call as src/globe.py defines it.
PdfExportGlobe ==
    /\ pdf_out = None
    /\ pdf_out' = [by |-> "globe",
                   result |-> globe_get_pdf_download_link(pdf_in.markdown_text,
                                  pdf_in.filename, pdf_in.destination,
                                  pdf_in.travel_dates, pdf_in.net, pdf_in.build_ok)]
    /\ UNCHANGED <<pdf_in, outside_pdf>>

PdfNext ==
    \/ PdfExportTest
    \/ PdfExportGlobe

SpecPdf == PdfInit /\ [][PdfNext]_vars


Init ==
    /\ SessionInit /\ PdfIdle /\ ImagesIdle /\ FilenameIdle /\ AmadeusIdle
    /\ StartupIdle /\ QueryIdle
Spec == Init /\ [][Next]_vars

\* globe_hopper_agent.run and chat_agent.run are synchronous calls inside the
\* handler: once one returns or raises, the handler runs on to its end.  The
\* call itself ending is the assumption.
SpecFair ==
    /\ Init /\ [][Next]_vars
    /\ WF_vars(PlanAgentReturns \/ PlanAgentRaises)
    /\ WF_vars(ChatAgentReturns \/ ChatAgentRaises)

(***************************************************************************)
(* display_images_from_markdown (src/test.py).  The text is the same        *)
(* sequence of lines; an image reference ![alt](url) is an img line, and    *)
(* removing it leaves the empty line.                                       *)
(***************************************************************************)
NoDestination == << >>        \* None, or the empty string: both are falsy
PlanPhrase == "Plan a trip to Paris for 2 travelers"

\* re.search(r'Plan a trip to (.*?) for', markdown_text): group(1), or None.
SearchDestination(markdown_text) ==
    IF \E i \in 1..Len(markdown_text) :
          markdown_text[i].kind = "text" /\ markdown_text[i].text = PlanPhrase
    THEN <<"Paris">> ELSE NoDestination

\* re.finditer(r'!\[(.*?)\]\((.*?)\)', markdown_text): the references in order.
ImageMatches(markdown_text) == SelectSeq(markdown_text, LAMBDA l : l.kind = "img")

\* markdown_text.replace(match.group(0), ""): every occurrence is removed.
replace(text, ref) ==
    [i \in 1..Len(text) |-> IF text[i] = ref THEN Line("blank", "") ELSE text[i]]

Shown(url, caption) == [url |-> url, caption |-> caption]

Extracted(text, shown, attempts, searches, warnings) ==
    [text |-> text, shown |-> shown, attempts |-> attempts, searches |-> searches,
     warnings |-> warnings]

RECURSIVE ShowResults_all(_, _, _, _, _)
ShowResults_all(results, i, dest, show_search, r) ==
    IF i > Len(results) THEN r
    ELSE IF results[i] = "" THEN ShowResults_all(results, i + 1, dest, show_search, r)
    ELSE ShowResults_all(results, i + 1, dest, show_search,
             [r EXCEPT !.attempts = Append(@, results[i]),
                       !.shown = IF show_search[IF i > 3 THEN 3 ELSE i]
                                 THEN Append(@, Shown(results[i],
                                                 dest \o <<"attraction", i>>))
                                 ELSE @])

\* "Display first 3 images": results['images_results'][:3], each with its
\* 'original' url, shown with st.image unless that raises.
RECURSIVE ShowResults(_, _, _, _, _)
ShowResults(results, i, dest, show_search, r) ==
    IF i > Len(results) \/ i > 3 THEN r
    ELSE IF results[i] = "" THEN ShowResults(results, i + 1, dest, show_search, r)
    ELSE ShowResults(results, i + 1, dest, show_search,
             [r EXCEPT !.attempts = Append(@, results[i]),
                       !.shown = IF show_search[i]
                                 THEN Append(@, Shown(results[i],
                                                 dest \o <<"attraction", i>>))
                                 ELSE @])

SupplementarySearch_retry(dest, env, r) ==
    LET asked == [r EXCEPT !.searches = Append(@, dest \o <<"travel attractions">>)] IN
    IF env.search.status = "raise"
    THEN [asked EXCEPT !.searches = Append(@, dest \o <<"travel attractions">>),
                       !.warnings = @ + 1]
    ELSE IF ~env.search.has_results THEN asked
    ELSE ShowResults(env.search.results, 1, dest, env.show_search, asked)

\* The supplementary search: one requests.get for "<destination> travel
\* attractions", inside try/except Exception -> st.warning.
SupplementarySearch(dest, env, r) ==
    LET asked == [r EXCEPT !.searches = Append(@, dest \o <<"travel attractions">>)] IN
    IF env.search.status = "raise" THEN [asked EXCEPT !.warnings = @ + 1]
    ELSE IF ~env.search.has_results THEN asked
    ELSE ShowResults(env.search.results, 1, dest, env.show_search, asked)

RECURSIVE ProcessMatches_abort(_, _, _, _)
ProcessMatches_abort(matches, k, show, r) ==
    IF k > Len(matches) THEN r
    ELSE LET m == matches[k]
             tried == [r EXCEPT !.attempts = Append(@, m.url)] IN
         IF show[k]
         THEN ProcessMatches_abort(matches, k + 1, show,
                  [tried EXCEPT
                      !.shown = Append(@, Shown(m.url, IF m.text = "" THEN "Travel Image"
                                                       ELSE m.text)),
                      !.text = replace(@, m)])
         ELSE tried

RECURSIVE ProcessMatches_always(_, _, _, _)
ProcessMatches_always(matches, k, show, r) ==
    IF k > Len(matches) THEN r
    ELSE LET m == matches[k]
             tried == [r EXCEPT !.attempts = Append(@, m.url),
                                !.text = replace(@, m)] IN
         IF show[k]
         THEN ProcessMatches_always(matches, k + 1, show,
                  [tried EXCEPT
                      !.shown = Append(@, Shown(m.url, IF m.text = "" THEN "Travel Image"
                                                       ELSE m.text))])
         ELSE ProcessMatches_always(matches, k + 1, show, tried)

\* "Process the original markdown images": st.image, then the reference is
\* removed from the text; when st.image raises the reference stays.
RECURSIVE ProcessMatches(_, _, _, _)
ProcessMatches(matches, k, show, r) ==
    IF k > Len(matches) THEN r
    ELSE LET m == matches[k]
             tried == [r EXCEPT !.attempts = Append(@, m.url)] IN
         IF show[k]
         THEN ProcessMatches(matches, k + 1, show,
                  [tried EXCEPT
                      !.shown = Append(@, Shown(m.url, IF m.text = "" THEN "Travel Image"
                                                       ELSE m.text)),
                      !.text = replace(@, m)])
         ELSE ProcessMatches(matches, k + 1, show, tried)

display_images_from_markdown(markdown_text, dest, env) ==
    LET d == IF dest = NoDestination THEN SearchDestination(markdown_text) ELSE dest
        matches == ImageMatches(markdown_text)
        start == Extracted(markdown_text, << >>, << >>, << >>, 0)
        searched == IF matches = << >> /\ d # NoDestination /\ env.serpapi_api_key
                    THEN SupplementarySearch(d, env, start) ELSE start
    IN ProcessMatches(matches, 1, env.show, searched)

(***************************************************************************)
(* SpecImages: one call of display_images_from_markdown on a bounded text,  *)
(* with the outcome of every st.image call and of the image search drawn    *)
(* from small sets.                                                         *)
(***************************************************************************)
ImgLines ==
    {Line("text", "Enjoy"), Line("text", PlanPhrase), ImgLine("Louvre", "u1"),
     ImgLine("Seine", "u2"), ImgLine("", "u1")}

ImgTexts == SeqsUpTo(ImgLines, MaxLines)

SearchOutcome(status, has_results, results) ==
    [status |-> status, has_results |-> has_results, results |-> results]

\* requests.get / response.json() raise; the reply lacks 'images_results';
\* or it lists results, one of them without an 'original' url.
SearchOutcomes ==
    {SearchOutcome("raise", FALSE, << >>), SearchOutcome("ok", FALSE, << >>),
     SearchOutcome("ok", TRUE, << >>), SearchOutcome("ok", TRUE, <<"s1">>),
     SearchOutcome("ok", TRUE, <<"s1", "", "s2", "s3">>),
     SearchOutcome("ok", TRUE, <<"s1", "s2", "s3", "s4">>)}

AllShown == [i \in 1..3 |-> TRUE]

\* The environments that matter to a text: the search is only consulted
\* when the text has no image reference.
Envs(markdown_text) ==
    LET n == Len(ImageMatches(markdown_text)) IN
    IF n = 0
    THEN [serpapi_api_key : BOOLEAN, search : SearchOutcomes,
          show_search : [1..3 -> BOOLEAN], show : {<< >>}]
    ELSE [serpapi_api_key : BOOLEAN, search : {SearchOutcome("raise", FALSE, << >>)},
          show_search : {AllShown}, show : [1..n -> BOOLEAN]]

ImagesInit ==
    /\ SessionIdle
    /\ PdfIdle
    /\ FilenameIdle
    /\ AmadeusIdle
    /\ StartupIdle
    /\ QueryIdle
    /\ \E markdown_text \in ImgTexts, dest \in {NoDestination, <<"Rome">>} :
          \E env \in Envs(markdown_text) :
              img_in = [markdown_text |-> markdown_text, destination |-> dest,
                        env |-> env]
    /\ img_out = None

\* display_images_from_markdown(response_content, destination=destination)
\* in the generate_plan handler.
ExtractForPlan ==
    /\ img_out = None
    /\ img_out' = [by |-> "plan",
                   result |-> display_images_from_markdown(img_in.markdown_text,
                                  img_in.destination, img_in.env)]
    /\ UNCHANGED <<img_in, outside_images>>

\* processed_response = display_images_from_markdown(response) in the display
\* loops: no destination is passed.
ExtractForHistory ==
    /\ img_out = None
    /\ img_in.destination = NoDestination
    /\ img_out' = [by |-> "history",
                   result |-> display_images_from_markdown(img_in.markdown_text,
                                  NoDestination, img_in.env)]
    /\ UNCHANGED <<img_in, outside_images>>

ImagesNext ==
    \/ ExtractForPlan
    \/ ExtractForHistory

SpecImages == ImagesInit /\ [][ImagesNext]_vars

(***************************************************************************)
(* The PDF file name of the history display loop, and SpecFilename: the     *)
(* name built from a bounded destination and a current date.                *)
(***************************************************************************)
MaxName == 3

str_replace_first(string, old, new) ==
    [i \in 1..Len(string) |->
        IF string[i] = old /\ \A j \in 1..(i - 1) : string[j] # old
        THEN new ELSE string[i]]

\* string.replace(old, new) for a one-character old: every occurrence.
str_replace(string, old, new) ==
    [i \in 1..Len(string) |-> IF string[i] = old THEN new ELSE string[i]]

\* destination_name = destination.replace(" ", "_") if destination else "travel_plan"
\* filename = f"{destination_name}_itinerary_{today_date}.pdf"
pdf_filename(dest, now) ==
    (IF dest # << >> THEN str_replace(dest, " ", "_") ELSE <<"travel_plan">>)
        \o <<"_itinerary_">> \o strftime_Ymd(now) \o <<".pdf">>

NameChars == {"N", "y", " "}
DestinationNames == SeqsUpTo(NameChars, MaxName) \cup Destinations
Nows == {Date(2025, 1, 5), Date(2025, 12, 31), Date(2026, 11, 1)}

FilenameInit ==
    /\ SessionIdle
    /\ PdfIdle
    /\ ImagesIdle
    /\ AmadeusIdle
    /\ StartupIdle
    /\ QueryIdle
    /\ \E dest \in DestinationNames, now \in Nows :
          fn_in = [destination |-> dest, now |-> now]
    /\ fn_out = None

\* The file name as the display loop of src/test.py builds it.
FilenameTest ==
    /\ fn_out = None
    /\ fn_out' = [by |-> "test", filename |-> pdf_filename(fn_in.destination, fn_in.now)]
    /\ UNCHANGED <<fn_in, outside_filename>>

\* The same lines in src/globe.py.
FilenameGlobe ==
    /\ fn_out = None
    /\ fn_out' = [by |-> "globe", filename |-> pdf_filename(fn_in.destination, fn_in.now)]
    /\ UNCHANGED <<fn_in, outside_filename>>

FilenameNext ==
    \/ FilenameTest
    \/ FilenameGlobe

SpecFilename == FilenameInit /\ [][FilenameNext]_vars

(***************************************************************************)
(* AmadeusFlightToolsSDK (src/main.py) and SpecAmadeus: an object built     *)
(* from two credentials, and a bounded sequence of tool calls on it.        *)
(***************************************************************************)
MaxCalls == 3

\* os.environ.get(name): None when the variable is not set, else its value.
NotSet == [defined |-> FALSE, value |-> ""]
EmptyValue == [defined |-> TRUE, value |-> ""]
KeyValue == [defined |-> TRUE, value |-> "key"]
Credentials == {NotSet, EmptyValue, KeyValue}
\* not x
Falsy(credential) == ~credential.defined \/ credential.value = ""

NoMessage == << >>      \* error_message = None
MissingCredentials == <<"Amadeus client credentials are missing">>

\* __init__: Client(...) returns, or raises ValueError.
AmadeusFlightToolsSDK(client_id, client_secret, client_built) ==
    IF Falsy(client_id) \/ Falsy(client_secret)
    THEN [client |-> FALSE, error_message |-> MissingCredentials,
          client_id |-> client_id, client_secret |-> client_secret]
    ELSE IF client_built
    THEN [client |-> TRUE, error_message |-> NoMessage,
          client_id |-> client_id, client_secret |-> client_secret]
    ELSE [client |-> FALSE,
          error_message |-> <<"Error initializing Amadeus client: ", "ValueError">>,
          client_id |-> client_id, client_secret |-> client_secret]

\* How a call to the amadeus Client ends: response.data, a ResponseError, or
\* any other exception.
SdkOutcomes == {"data", "ResponseError", "exception"}

Returned(value) == [kind |-> "return", value |-> value]
RaisedToCaller(exception) == [kind |-> "raise", value |-> <<exception>>]
ErrorPayload(message) == [error |-> message]
ToolEnd(result, calls) == [result |-> result, calls |-> calls]
SdkCall(endpoint, arguments) == [endpoint |-> endpoint, arguments |-> arguments]

\* try: return response.data / except ResponseError: return {"error": str(error)}
AfterSdk(call, sdk) ==
    ToolEnd(CASE sdk = "data" -> Returned([data |-> call.endpoint])
              [] sdk = "ResponseError" -> Returned(ErrorPayload(<<"ResponseError">>))
              [] OTHER -> RaisedToCaller("exception"),
            <<call>>)

search_airports(self, keyword, sdk) ==
    IF ~self.client THEN ToolEnd(Returned(ErrorPayload(self.error_message)), << >>)
    ELSE AfterSdk(SdkCall("reference_data.locations.get", <<keyword, "AIRPORT">>), sdk)

search_flights_unchecked(self, origin, dest, departure_date, return_date, adults, sdk) ==
    IF ~self.client THEN ToolEnd(RaisedToCaller("AttributeError"), << >>)
    ELSE AfterSdk(SdkCall("shopping.flight_offers_search.get",
                          <<origin, dest, departure_date, return_date, adults>>), sdk)

\* if return_date: the round trip search, else the one way search.
search_flights(self, origin, dest, departure_date, return_date, adults, sdk) ==
    IF ~self.client THEN ToolEnd(Returned(ErrorPayload(self.error_message)), << >>)
    ELSE IF return_date # ""
    THEN AfterSdk(SdkCall("shopping.flight_offers_search.get",
                          <<origin, dest, departure_date, return_date, adults>>), sdk)
    ELSE AfterSdk(SdkCall("shopping.flight_offers_search.get",
                          <<origin, dest, departure_date, adults>>), sdk)

get_airport_info(self, airport_code, sdk) ==
    IF ~self.client THEN ToolEnd(Returned(ErrorPayload(self.error_message)), << >>)
    ELSE AfterSdk(SdkCall("reference_data.locations.by_id.get", <<airport_code>>), sdk)

Keywords == {"", "Paris"}
AirportCodes == {"CDG"}
ReturnDates == {"", "2025-01-09"}

ToolCalled(tool, end) ==
    /\ tool_out' = Append(tool_out, [tool |-> tool, kind |-> end.result.kind,
                                     value |-> end.result.value])
    /\ sdk_log' = sdk_log \o end.calls
    /\ UNCHANGED <<amadeus, outside_amadeus>>

AmadeusInit ==
    /\ SessionIdle
    /\ PdfIdle
    /\ ImagesIdle
    /\ FilenameIdle
    /\ StartupIdle
    /\ QueryIdle
    /\ \E client_id \in Credentials, client_secret \in Credentials,
          client_built \in BOOLEAN :
          amadeus = AmadeusFlightToolsSDK(client_id, client_secret, client_built)
    /\ sdk_log = << >>
    /\ tool_out = << >>

SearchAirports ==
    /\ Len(tool_out) < MaxCalls
    /\ \E keyword \in Keywords, sdk \in SdkOutcomes :
          ToolCalled("search_airports", search_airports(amadeus, keyword, sdk))

SearchFlights ==
    /\ Len(tool_out) < MaxCalls
    /\ \E return_date \in ReturnDates, sdk \in SdkOutcomes :
          ToolCalled("search_flights",
                     search_flights(amadeus, "DEL", "CDG", "2025-01-05", return_date,
                                    "1", sdk))

GetAirportInfo ==
    /\ Len(tool_out) < MaxCalls
    /\ \E airport_code \in AirportCodes, sdk \in SdkOutcomes :
          ToolCalled("get_airport_info", get_airport_info(amadeus, airport_code, sdk))

AmadeusNext ==
    \/ SearchAirports
    \/ SearchFlights
    \/ GetAirportInfo

SpecAmadeus == AmadeusInit /\ [][AmadeusNext]_vars

(***************************************************************************)
(* The start of the script (SpecStartup): the credentials are read from the *)
(* environment, the agents are built and the missing keys are reported.     *)
(***************************************************************************)
Environments ==
    [GROQ_API_KEY : Credentials, EXA_API_KEY : Credentials,
     SERPAPI_API_KEY : Credentials, AMADEUS_CLIENT_ID : Credentials,
     AMADEUS_CLIENT_SECRET : Credentials]

AmadeusPair == "AMADEUS_CLIENT_ID and/or AMADEUS_CLIENT_SECRET"

MissingKey_unset(credential, name) == IF ~credential.defined THEN <<name>> ELSE << >>

\* missing_keys.append(name) under "if not <key>".
MissingKey(credential, name) == IF Falsy(credential) THEN <<name>> ELSE << >>

main_missing_keys(env) ==
    MissingKey(env.GROQ_API_KEY, "GROQ_API_KEY")
        \o MissingKey(env.EXA_API_KEY, "EXA_API_KEY")
        \o (IF Falsy(env.AMADEUS_CLIENT_ID) \/ Falsy(env.AMADEUS_CLIENT_SECRET)
            THEN <<AmadeusPair>> ELSE << >>)

test_missing_keys(env) ==
    MissingKey(env.GROQ_API_KEY, "GROQ_API_KEY")
        \o MissingKey(env.EXA_API_KEY, "EXA_API_KEY")
        \o MissingKey(env.SERPAPI_API_KEY, "SERPAPI_API_KEY")

globe_missing_keys(env) ==
    MissingKey(env.GROQ_API_KEY, "GROQ_API_KEY")
        \o MissingKey(env.EXA_API_KEY, "EXA_API_KEY")

\* create_tools_list of each file: the tools of the Globe Hopper agent.
main_create_tools_list(env) ==
    (IF Falsy(env.EXA_API_KEY) THEN << >> ELSE <<"ExaTools">>)
        \o <<"DuckDuckGo">>
        \o (IF Falsy(env.AMADEUS_CLIENT_ID) \/ Falsy(env.AMADEUS_CLIENT_SECRET)
            THEN << >>
            ELSE <<"search_airports", "search_flights", "get_airport_info">>)

test_create_tools_list(env) ==
    (IF Falsy(env.EXA_API_KEY) THEN << >> ELSE <<"ExaTools">>)
        \o (IF Falsy(env.SERPAPI_API_KEY) THEN << >> ELSE <<"SerpApiTools">>)
        \o <<"DuckDuckGo">>

globe_create_tools_list(env) ==
    (IF Falsy(env.EXA_API_KEY) THEN << >> ELSE <<"ExaTools">>) \o <<"DuckDuckGo">>

\* The script up to the session state initialisation: the agents (None
\* without the GROQ key), and st.warning when missing_keys is not empty.
Started(by, env, tools, missing_keys) ==
    [by |-> by,
     completed |-> TRUE,
     agents |-> ~Falsy(env.GROQ_API_KEY),
     tools |-> IF Falsy(env.GROQ_API_KEY) THEN << >> ELSE tools,
     warning |-> missing_keys # << >>,
     missing_keys |-> missing_keys]

StartupInit ==
    /\ SessionIdle
    /\ PdfIdle
    /\ ImagesIdle
    /\ FilenameIdle
    /\ AmadeusIdle
    /\ QueryIdle
    /\ environ \in Environments
    /\ startup = None

StartMain ==
    /\ startup = None
    /\ startup' = Started("main", environ, main_create_tools_list(environ),
                          main_missing_keys(environ))
    /\ UNCHANGED <<environ, outside_startup>>

StartTest ==
    /\ startup = None
    /\ startup' = Started("test", environ, test_create_tools_list(environ),
                          test_missing_keys(environ))
    /\ UNCHANGED <<environ, outside_startup>>

StartGlobe ==
    /\ startup = None
    /\ startup' = Started("globe", environ, globe_create_tools_list(environ),
                          globe_missing_keys(environ))
    /\ UNCHANGED <<environ, outside_startup>>

StartupNext ==
    \/ StartMain
    \/ StartTest
    \/ StartGlobe

SpecStartup == StartupInit /\ [][StartupNext]_vars

(***************************************************************************)
(* SpecQuery: the three copies of construct_query applied to the forms      *)
(* over a few values of every field.                                        *)
(***************************************************************************)
Origins == {<< >>, <<"Delhi">>}
Travelers == {1, 2}
Interests == {<< >>, <<"Nature">>, <<"Adventure", "Cultural">>}
Accommodations == {"Budget Hostels", "Any"}
Notes == {<< >>, <<"vegetarian">>}

Forms ==
    {Form(origin, dest, Today, end, travelers, budget_option, interests, accommodation,
          include_images, additional_notes) :
        origin \in Origins, dest \in Destinations, end \in DateInputs,
        travelers \in Travelers, budget_option \in BudgetOptions,
        interests \in Interests, accommodation \in Accommodations,
        include_images \in BOOLEAN, additional_notes \in Notes}

QueryInit ==
    /\ SessionIdle
    /\ PdfIdle
    /\ ImagesIdle
    /\ FilenameIdle
    /\ AmadeusIdle
    /\ StartupIdle
    /\ q_in \in Forms
    /\ q_out = None

QueryTest ==
    /\ q_out = None
    /\ q_out' = [by |-> "test", query |-> test_construct_query(q_in)]
    /\ UNCHANGED <<q_in, outside_query>>

QueryMain ==
    /\ q_out = None
    /\ q_out' = [by |-> "main", query |-> main_construct_query(q_in)]
    /\ UNCHANGED <<q_in, outside_query>>

QueryGlobe ==
    /\ q_out = None
    /\ q_out' = [by |-> "globe", query |-> globe_construct_query(q_in)]
    /\ UNCHANGED <<q_in, outside_query>>

QueryNext ==
    \/ QueryTest
    \/ QueryMain
    \/ QueryGlobe

SpecQuery == QueryInit /\ [][QueryNext]_vars

(***************************************************************************)
(* SpecRender: the session with the whole body of the history display loop  *)
(* of src/test.py: for each pair the image extractor, the file name, the    *)
(* date label and the PDF link.  One render meets one state of the network  *)
(* and of doc.build; datetime.now() is read once per pair.  What the loop   *)
(* drew is kept until the script run ends.  The agent calls return; what    *)
(* a call that raises leaves behind is the matter of Spec.                  *)
(***************************************************************************)
\* The lines of a stored answer, as the extractor and the renderer read them.
MarkdownLines(content) ==
    [i \in 1..Len(content) |->
        IF content[i] = "![Louvre](u1)" THEN ImgLine("Louvre", "u1")
        ELSE Line("text", content[i])]

\* st.image shows every image, or none; no SERPAPI key.
RenderEnv(markdown_text, online) ==
    [serpapi_api_key |-> FALSE, search |-> SearchOutcome("raise", FALSE, << >>),
     show_search |-> AllShown,
     show |-> [i \in 1..Len(ImageMatches(markdown_text)) |-> online]]

\* requests.get answers every url, or fails for every url.
RenderNet(online) ==
    [u \in Urls |-> IF ~online THEN Failed
                    ELSE IF u = "u1" THEN Fetch("ok", 29, 145) ELSE Fetch("ok", 97, 97)]

\* datetime.now() of the k-th pair: the day changes after `rollover` pairs.
ClockAt(k, rollover) == IF k <= rollover THEN Date(2025, 12, 31) ELSE Date(2026, 1, 1)

\* The day does not change during the loop, or it changes before the last pair.
Rollovers(n) == {n} \cup {k \in {n - 1} : k >= 0}

RenderPair_fromrequest(pair, dest, start, end, now, online, build_ok) ==
    LET markdown_text == MarkdownLines(pair.response)
        filename == pdf_filename(<<"New", " ", "York">>, now)
        travel_dates == travel_dates_label(start, end)
    IN [query |-> pair.query,
        response |-> pair.response,
        processed_response |->
            display_images_from_markdown(markdown_text, NoDestination,
                                         RenderEnv(markdown_text, online)).text,
        today_date |-> strftime_Ymd(now),
        filename |-> filename,
        travel_dates |-> travel_dates,
        download_link |->
            get_pdf_download_link(markdown_text, filename, <<"New", " ", "York">>,
                                  travel_dates,
                                  RenderNet(online), build_ok)]

\* The body of the loop for one pair.
RenderPair(pair, dest, start, end, now, online, build_ok) ==
    LET markdown_text == MarkdownLines(pair.response)
        filename == pdf_filename(dest, now)
        travel_dates == travel_dates_label(start, end)
    IN [query |-> pair.query,
        response |-> pair.response,
        processed_response |->
            display_images_from_markdown(markdown_text, NoDestination,
                                         RenderEnv(markdown_text, online)).text,
        today_date |-> strftime_Ymd(now),
        filename |-> filename,
        travel_dates |-> travel_dates,
        download_link |->
            get_pdf_download_link(markdown_text, filename, dest, travel_dates,
                                  RenderNet(online), build_ok)]

\* The loop over the pairs; an exception of get_pdf_download_link is not
\* caught and ends the script run.
RECURSIVE RenderLoop(_, _, _, _, _, _, _, _)
RenderLoop(pairs, k, dest, start, end, rollover, online, build_ok) ==
    IF k > Len(pairs) THEN << >>
    ELSE LET drawn == RenderPair(pairs[k], dest, start, end, ClockAt(k, rollover),
                                 online, build_ok)
         IN IF drawn.download_link.raised THEN <<drawn>>
            ELSE <<drawn>> \o RenderLoop(pairs, k + 1, dest, start, end, rollover,
                                         online, build_ok)

Render_stores ==
    /\ pc = "idle"
    /\ groq_api_key
    /\ messages # << >>
    /\ \E online \in BOOLEAN, build_ok \in BOOLEAN,
          rollover \in Rollovers(Len(DisplayPairs(messages))) :
          rendered' = RenderLoop(DisplayPairs(messages), 1, destination,
                                 start_date, end_date, rollover, online, build_ok)
    /\ messages' =
          [i \in 1..Len(messages) |->
              IF messages[i].role = "assistant"
              THEN [messages[i] EXCEPT
                       !.content = SelectSeq(@, LAMBDA t : t # "![Louvre](u1)")]
              ELSE messages[i]]
    /\ displayed' = DisplayPairs(messages)
    /\ pc' = "render"
    /\ UNCHANGED <<groq_api_key, chat_messages, destination, start_date,
                   end_date, user_prompt, st_error, agent_runs, unavailable>>
    /\ UNCHANGED outside_session

\* A script rerun that presses no button, with all that the display loop does.
Render ==
    /\ pc = "idle"
    /\ groq_api_key
    /\ messages # << >>
    /\ \E online \in BOOLEAN, build_ok \in BOOLEAN,
          rollover \in Rollovers(Len(DisplayPairs(messages))) :
          rendered' = RenderLoop(DisplayPairs(messages), 1, destination,
                                 start_date, end_date, rollover, online, build_ok)
    /\ displayed' = DisplayPairs(messages)
    /\ pc' = "render"
    /\ UNCHANGED <<groq_api_key, messages, chat_messages, destination, start_date,
                   end_date, user_prompt, st_error, agent_runs, unavailable>>
    /\ UNCHANGED outside_session

\* The script run ends, and with it the names the loop bound.
RenderDone ==
    /\ pc = "render"
    /\ pc' = "idle"
    /\ rendered' = << >>
    /\ UNCHANGED <<groq_api_key, messages, chat_messages, destination, start_date,
                   end_date, user_prompt, st_error, agent_runs, unavailable,
                   displayed>>
    /\ UNCHANGED outside_session

RenderNext ==
    \/ EditDestination
    \/ EditDates
    \/ GeneratePlan
    \/ PlanAgentReturns
    \/ ChatSend
    \/ ChatAgentReturns
    \/ Render
    \/ RenderDone

SpecRender == Init /\ [][RenderNext]_vars

(***************************************************************************)
(* Properties of the session (Spec).                                        *)
(***************************************************************************)
IsPrefix(s, t) == Len(s) <= Len(t) /\ SubSeq(t, 1, Len(s)) = s

Paired(history) ==
    /\ Len(history) % 2 = 0
    /\ \A i \in 1..Len(history) :
          history[i].role = (IF i % 2 = 1 THEN "user" ELSE "assistant")

\* C1: once every submission has ended (the agent call returned or raised),
\* the travel-plan history is a sequence of (user, assistant) pairs: its length
\* is even, a user entry stands at every even 0-based index and an assistant
\* entry right after it.
C1_PairedAfterSubmissions == pc = "idle" => Paired(messages)

\* C2: both histories are append-only: every step leaves each history a
\* prefix of what it becomes, so no entry is removed, moved or rewritten.
C2_AppendOnly ==
    [][IsPrefix(messages, messages') /\ IsPrefix(chat_messages, chat_messages')]_vars

C2_Witness ==
    /\ Len(messages) >= 3
    /\ Len(chat_messages) >= 2
    /\ st_error >= 1
    /\ displayed # << >>

(***************************************************************************)
(* Properties of get_pdf_download_link (SpecPdf).                           *)
(***************************************************************************)
PdfDone == pdf_out # None
PdfLink == PdfDone /\ ~pdf_out.result.raised
NamesOf(by) == IF by = "test" THEN TestTagNames ELSE GlobeTagNames
FoundTags == find_all(markdown(pdf_in.markdown_text), NamesOf(pdf_out.by))

IsBlock(e) == e.type # "Spacer"
\* The blocks of a document between its header and its footer.
ContentBlocks(document) ==
    SelectSeq(SubSeq(document, HeaderOnly + 1, Len(document) - Len(Footer)), IsBlock)
IsImageBlock(e) == e.type = "Image"
IsTextBlock(e) == e.type = "Paragraph"

KindsOf(markdown_text) == {markdown_text[i].kind : i \in 1..Len(markdown_text)}
TextsOf(markdown_text) == {markdown_text[i].text : i \in 1..Len(markdown_text)}

StyleOf(name) ==
    CASE name = "h1" -> "heading_style" [] name = "h2" -> "section_style"
      [] name = "h3" -> "day_style" [] name = "p" -> "normal_style"
      [] name = "li" -> "bullet_style"

IsWrapper(t) == t.name \in {"ul", "ol"}
NotWrapper(t) == ~IsWrapper(t)

\* One block per tag that is no list wrapper, in the order of the tags.
BlockPerTag(tags) ==
    LET ts == SelectSeq(tags, NotWrapper) IN
    [i \in 1..Len(ts) |->
        Paragraph(IF ts[i].name = "li" THEN <<"[bullet]">> \o ts[i].text ELSE ts[i].text,
                  StyleOf(ts[i].name))]

OnlyHeadingsParagraphsItems(markdown_text) ==
    /\ KindsOf(markdown_text) \subseteq {"h1", "h2", "h3", "text", "ul", "ol", "blank", "ws"}
    /\ TextsOf(markdown_text) \cap BadTexts = {}

\* C3: a markdown text made of h1-h3 headings, paragraphs and list items only
\* is rendered as one block per recognized tag, in document order, and the
\* ul/ol wrappers give no block.
C3_OneBlockPerTag ==
    (PdfLink /\ OnlyHeadingsParagraphsItems(pdf_in.markdown_text))
        => ContentBlocks(pdf_out.result.document) = BlockPerTag(FoundTags)

C3_Witness ==
    /\ PdfLink
    /\ OnlyHeadingsParagraphsItems(pdf_in.markdown_text)
    /\ \E i \in 1..Len(FoundTags) : FoundTags[i].name = "ul"
    /\ {"h1", "text", "ul"} \subseteq KindsOf(pdf_in.markdown_text)
    /\ Len(ContentBlocks(pdf_out.result.document)) >= 3

\* What the walk alone made of the text: the elements after the header.
ParsedElements ==
    LET w == Walk(FoundTags, Header(pdf_in.destination, pdf_in.travel_dates), 0,
                  pdf_in.net) IN
    SubSeq(w.elements, HeaderOnly + 1, Len(w.elements))
ParsedBlocks == SelectSeq(ParsedElements, IsBlock)

\* The blocks of the document that follow those of the parse.
AddedBlocks ==
    LET blocks == ContentBlocks(pdf_out.result.document) IN
    SubSeq(blocks, Len(ParsedBlocks) + 1, Len(blocks))

NonEmptyLines(markdown_text) ==
    SelectSeq(markdown_text, LAMBDA l : RawLine(l) # << >>)
\* The lines that hold a character other than whitespace.
NonBlankLines(markdown_text) ==
    SelectSeq(markdown_text, LAMBDA l : l.kind \notin BlankKinds)

LinePerParagraph(lines) ==
    [i \in 1..Len(lines) |-> Paragraph(RawLine(lines[i]), "normal_style")]

\* C4 as stated: a text whose parse produces 4 or fewer blocks is rendered
\* line by line, the paragraphs added being as many as the non-empty lines.
C4_FallbackUpToFourBlocks ==
    (PdfLink /\ Len(ParsedBlocks) <= 4)
        => Len(AddedBlocks) = Len(NonEmptyLines(pdf_in.markdown_text))

\* C4 amended: a text whose parse produces no element (only the 4 header
\* elements are present) is rendered line by line: the blocks added are one
\* paragraph per line that is not blank, in the order of the lines.
C4_FallbackWhenNothingParsed ==
    (PdfLink /\ ParsedElements = << >>)
        => AddedBlocks = LinePerParagraph(NonBlankLines(pdf_in.markdown_text))

C4_Witness ==
    /\ PdfLink
    /\ ParsedElements = << >>
    /\ Len(AddedBlocks) = 2
    /\ "ws" \in KindsOf(pdf_in.markdown_text)

\* C5: the example "# Paris Trip\n## Day 1\n- Visit the Louvre\n- Eat croissants"
\* is rendered as the h1 block, the h2 block and the two bullets, in that
\* order, with no line-by-line paragraph, and the footer is the last block.
C5_ParisTripExample ==
    (PdfLink /\ pdf_in.markdown_text = ParisTrip)
        => LET document == pdf_out.result.document IN
           /\ ContentBlocks(document) =
                 <<Paragraph(<<"Paris Trip">>, "heading_style"),
                   Paragraph(<<"Day 1">>, "section_style"),
                   Paragraph(<<"[bullet]", "Visit the Louvre">>, "bullet_style"),
                   Paragraph(<<"[bullet]", "Eat croissants">>, "bullet_style")>>
           /\ \A i \in 1..Len(document) :
                 ~(IsTextBlock(document[i]) /\ document[i].style = "normal_style")
           /\ document[Len(document)] =
                 Paragraph(<<"Generated by GlobeTrek - Your AI Travel Companion">>, "Footer")

C5_Witness == PdfLink /\ pdf_in.markdown_text = ParisTrip

IsFooter(e) == IsTextBlock(e) /\ e.style = "Footer"

\* C6: every rendering that completes ends with the footer block, which
\* occurs once, after every other block.
C6_FooterLast ==
    PdfLink =>
        LET document == pdf_out.result.document IN
        /\ document # << >>
        /\ document[Len(document)] =
              Paragraph(<<"Generated by GlobeTrek - Your AI Travel Companion">>, "Footer")
        /\ \A i \in 1..(Len(document) - 1) : ~IsFooter(document[i])

C6_Witness ==
    /\ PdfLink
    /\ pdf_out.result.warnings >= 1
    /\ Len(ContentBlocks(pdf_out.result.document)) >= 2

RemoveAt(seq, i) == SubSeq(seq, 1, i - 1) \o SubSeq(seq, i + 1, Len(seq))

IsImg(t) == t.name = "img"
NotImg(t) == t.name # "img"
FetchFailed(t) == IsImg(t) /\ pdf_in.net[t.src].status # "ok"
FetchOk(t) == IsImg(t) /\ pdf_in.net[t.src].status = "ok"

\* What a call gave, images left out: whether it raised, and the text blocks.
TextOutcome(result) ==
    [raised |-> result.raised,
     blocks |-> IF result.raised THEN << >>
                ELSE SelectSeq(ContentBlocks(result.document), IsTextBlock)]

WithoutTag(i) ==
    RenderTags(RemoveAt(FoundTags, i), pdf_in.markdown_text, pdf_in.filename,
               pdf_in.destination, pdf_in.travel_dates, pdf_in.net, pdf_in.build_ok)

ImageBlocks == SelectSeq(ContentBlocks(pdf_out.result.document), IsImageBlock)

\* C7: an img tag whose fetch or decode fails gives no block and does not stop
\* the walk: the call gives the text blocks, tag for tag, that it gives for
\* the document without that img tag (so not fewer, and the tags after the
\* image are processed), and the image blocks are those of the fetches that
\* succeeded.
C7_FailedImageIsolated ==
    PdfDone =>
        /\ \A i \in 1..Len(FoundTags) :
              FetchFailed(FoundTags[i])
                  => TextOutcome(pdf_out.result) = TextOutcome(WithoutTag(i))
        /\ PdfLink => Len(ImageBlocks) = Len(SelectSeq(FoundTags, FetchOk))

C7_Witness ==
    /\ PdfLink
    /\ \E i \in 1..Len(FoundTags) :
          /\ FetchFailed(FoundTags[i])
          /\ i < Len(FoundTags)
          /\ FoundTags[Len(FoundTags)].name # "img"
    /\ pdf_out.result.warnings >= 1

TextTags == SelectSeq(FoundTags, LAMBDA t : NotImg(t) /\ NotWrapper(t))

\* A block the call has to render cannot be rendered, or doc.build fails.
RenderError ==
    \/ ~pdf_in.build_ok
    \/ \E i \in 1..Len(TextTags) :
          ParagraphRaises(BlockPerTag(TextTags)[i].text)
    \/ /\ \A i \in 1..Len(FoundTags) : IsWrapper(FoundTags[i]) \/ FetchFailed(FoundTags[i])
       /\ \E i \in 1..Len(pdf_in.markdown_text) :
             ParagraphRaises(RawLine(pdf_in.markdown_text[i]))

\* The text blocks of the complete document: those of the tags, or those of
\* the lines when no tag gave an element.
CompleteTextBlocks ==
    IF \A i \in 1..Len(FoundTags) : IsWrapper(FoundTags[i]) \/ FetchFailed(FoundTags[i])
    THEN LinePerParagraph(NonBlankLines(pdf_in.markdown_text))
    ELSE BlockPerTag(TextTags)

\* C8: the call returns a link that carries the complete document, or raises
\* and returns no link; an error in a block other than an image makes it
\* raise, so no link carries a document with a block missing.
C8_CompleteOrRaised ==
    PdfDone =>
        LET r == pdf_out.result IN
        /\ r.raised <=> RenderError
        /\ r.raised => DOMAIN r = {"raised", "warnings"}
        /\ ~r.raised =>
              /\ SubSeq(r.document, 1, HeaderOnly)
                    = Header(pdf_in.destination, pdf_in.travel_dates)
              /\ SubSeq(r.document, Len(r.document) - 1, Len(r.document)) = Footer
              /\ TextOutcome(r).blocks = CompleteTextBlocks
              /\ r.download = pdf_in.filename

C8_Witness ==
    /\ PdfDone
    /\ pdf_out.result.raised
    /\ pdf_in.build_ok
    /\ Len(ParsedBlocks) >= 1

OkFetches ==
    LET ts == SelectSeq(FoundTags, FetchOk) IN
    [k \in 1..Len(ts) |-> pdf_in.net[ts[k].src]]

\* C9 as stated: an image of w x h pixels is embedded at most 400 points wide
\* and exactly floor(h * 400 / w) points high.
C9_HeightIsFloor ==
    PdfLink =>
        /\ Len(ImageBlocks) = Len(OkFetches)
        /\ \A k \in 1..Len(ImageBlocks) :
              /\ ImageBlocks[k].width <= 400
              /\ ImageBlocks[k].height
                    = (OkFetches[k].height * 400) \div OkFetches[k].width

\* C9 amended: an image of w x h pixels is embedded exactly 400 points wide
\* and int(h * (400 / w)) points high, the product and the quotient being
\* rounded doubles: floor(h * 400 / w) or one less.
C9_HeightIsFloorOrOneLess ==
    PdfLink =>
        /\ Len(ImageBlocks) = Len(OkFetches)
        /\ \A k \in 1..Len(ImageBlocks) :
              LET floor == (OkFetches[k].height * 400) \div OkFetches[k].width IN
              /\ ImageBlocks[k].width = 400
              /\ ImageBlocks[k].height \in {floor - 1, floor}

C9_Witness ==
    /\ PdfLink
    /\ Len(ImageBlocks) = 2
    /\ ImageBlocks[1] = Image(400, 1999)
    /\ OkFetches[1] = Fetch("ok", 29, 145)

(***************************************************************************)
(* Properties of the image extractor (SpecImages).                          *)
(***************************************************************************)
ImagesDone == img_out # None

Caption(m) == IF m.text = "" THEN "Travel Image" ELSE m.text

\* The indices of the matches whose st.image call succeeded, in order.
DisplayedMatches ==
    SelectSeq([k \in 1..Len(ImageMatches(img_in.markdown_text)) |-> k],
              LAMBDA k : img_in.env.show[k])

\* C10 as stated: every image reference is gone from the returned text and
\* there is one image per reference, in extraction order.
C10_RemovesEveryReference ==
    ImagesDone =>
        LET m == ImageMatches(img_in.markdown_text)
            out == img_out.result IN
        /\ \A i \in 1..Len(out.text) : out.text[i].kind # "img"
        /\ m # << >> => out.shown = [k \in 1..Len(m) |-> Shown(m[k].url, Caption(m[k]))]

\* C10 (amended): the returned text is the input with exactly the references
\* removed that some successful st.image call displayed (all their
\* occurrences), a reference whose display raised stays in the text, and one
\* image is displayed per successful reference, in extraction order, with the
\* alt text (or "Travel Image") as caption.
C10_RemovesDisplayedReferences ==
    ImagesDone =>
        LET text == img_in.markdown_text
            m == ImageMatches(text)
            out == img_out.result IN
        /\ Len(out.text) = Len(text)
        /\ \A i \in 1..Len(text) :
              out.text[i] =
                  IF /\ text[i].kind = "img"
                     /\ \E k \in 1..Len(m) : m[k] = text[i] /\ img_in.env.show[k]
                  THEN Line("blank", "") ELSE text[i]
        /\ m # << >> =>
              out.shown = [j \in 1..Len(DisplayedMatches) |->
                              Shown(m[DisplayedMatches[j]].url,
                                    Caption(m[DisplayedMatches[j]]))]

\* A call on a text with two references where the first display raised and
\* the second succeeded: one reference stays, the other is removed.
C10_Witness ==
    /\ ImagesDone
    /\ Len(ImageMatches(img_in.markdown_text)) = 2
    /\ img_in.env.show = <<FALSE, TRUE>>
    /\ Len(img_out.result.shown) = 1
    /\ Len(ImageMatches(img_out.result.text)) = 1

\* The destination the call works with: the argument, or else the one the
\* text names.
KnownDestination ==
    IF img_out.by = "plan" /\ img_in.destination # NoDestination
    THEN img_in.destination
    ELSE SearchDestination(img_in.markdown_text)

NoReferences == ImageMatches(img_in.markdown_text) = << >>

\* C11 as stated: with no image reference in the text and a non-empty
\* destination, exactly one image search is issued, for
\* "<destination> travel attractions".
C11_OneSearch ==
    (ImagesDone /\ NoReferences /\ KnownDestination # NoDestination)
        => img_out.result.searches = <<KnownDestination \o <<"travel attractions">>>>

\* C11 (amended): with no image reference and a non-empty destination, exactly
\* one search for "<destination> travel attractions" is issued when a SerpAPI
\* key is configured, whether or not the request fails; without the key, with
\* an empty destination or with a reference in the text, none is issued.
C11_OneSearchWithKey ==
    ImagesDone =>
        img_out.result.searches =
            IF NoReferences /\ KnownDestination # NoDestination
                 /\ img_in.env.serpapi_api_key
            THEN <<KnownDestination \o <<"travel attractions">>>>
            ELSE << >>

\* The search was issued for the destination passed in, and the request raised.
C11_Witness ==
    /\ ImagesDone
    /\ img_out.by = "plan"
    /\ img_in.destination = <<"Rome">>
    /\ img_in.env.search.status = "raise"
    /\ img_out.result.searches = <<<<"Rome", "travel attractions">>>>
    /\ img_out.result.warnings = 1

\* C12: when the text holds no image reference, at most 3 supplementary
\* results are displayed and the text is returned as it came, whatever the
\* search returns and whether or not it fails.
C12_AtMostThreeTextUnmodified ==
    (ImagesDone /\ NoReferences) =>
        /\ Len(img_out.result.shown) <= 3
        /\ Len(img_out.result.attempts) <= 3
        /\ img_out.result.text = img_in.markdown_text

\* The search returned four results and three were displayed.
C12_Witness ==
    /\ ImagesDone
    /\ NoReferences
    /\ Len(img_in.env.search.results) = 4
    /\ Len(img_out.result.shown) = 3
    /\ img_in.markdown_text # << >>

\* The 'original' urls of the first three search results that have one.
ResultUrls ==
    LET results == img_in.env.search.results IN
    SelectSeq(SubSeq(results, 1, IF Len(results) < 3 THEN Len(results) ELSE 3),
              LAMBDA u : u # "")

SearchRan == img_out.result.searches # << >> /\ img_in.env.search.status = "ok"

\* C13: a failed display aborts nothing: every image reference of the text is
\* attempted, in order, and so is every one of the first three search results
\* when the search ran; the call returns its text.
C13_FailureIsolated ==
    ImagesDone =>
        LET m == ImageMatches(img_in.markdown_text) IN
        /\ ~NoReferences => img_out.result.attempts = [k \in 1..Len(m) |-> m[k].url]
        /\ SearchRan => img_out.result.attempts = ResultUrls
        /\ Len(img_out.result.text) = Len(img_in.markdown_text)

\* Three references, the display of the second raised, the third was shown.
C13_Witness ==
    /\ ImagesDone
    /\ img_in.env.show = <<TRUE, FALSE, TRUE>>
    /\ Len(img_out.result.attempts) = 3
    /\ Len(img_out.result.shown) = 2

(***************************************************************************)
(* Properties of the handlers (Spec).                                       *)
(***************************************************************************)
EntriesOf(history, role) == Len(SelectSeq(history, LAMBDA t : t.role = role))
UserEntries == EntriesOf(messages, "user") + EntriesOf(chat_messages, "user")
AssistantEntries ==
    EntriesOf(messages, "assistant") + EntriesOf(chat_messages, "assistant")

\* C14: every accepted submission and every chat send invokes its agent
\* exactly once (one call per user entry, never a second one); a call that
\* raises ends in one on-screen error with both histories left as they were
\* and no further call; once the handler has ended every call has given
\* either an assistant entry or an error.
C14_OneCallErrorNoRetry ==
    /\ [](agent_runs = UserEntries)
    /\ [](pc = "idle" => agent_runs = AssistantEntries + st_error)
    /\ [][st_error' # st_error =>
            /\ st_error' = st_error + 1
            /\ messages' = messages
            /\ chat_messages' = chat_messages
            /\ agent_runs' = agent_runs
            /\ pc' = "idle"]_vars

\* One submission and one chat send, both agent calls raised.
C14_Witness ==
    /\ pc = "idle"
    /\ agent_runs = 2
    /\ st_error = 2
    /\ Len(messages) = 1
    /\ Len(chat_messages) = 1

(***************************************************************************)
(* Properties of AmadeusFlightToolsSDK (SpecAmadeus).                       *)
(***************************************************************************)
BuiltWithoutCredentials ==
    Falsy(amadeus.client_id) \/ Falsy(amadeus.client_secret)

ToolsCalled == {tool_out[i].tool : i \in 1..Len(tool_out)}

\* C15: on an object built with a missing client id or a missing client
\* secret, every call of the three tools returns the payload
\* {"error": "Amadeus client credentials are missing"}, none raises and the
\* amadeus Client is never called, whatever the arguments and however many
\* calls were made before.
C15_MissingCredentialsPayload ==
    BuiltWithoutCredentials =>
        /\ sdk_log = << >>
        /\ \A i \in 1..Len(tool_out) :
              /\ tool_out[i].kind = "return"
              /\ tool_out[i].value = [error |-> MissingCredentials]

\* The three tools were called on an object built with a secret and no id.
C15_Witness ==
    /\ amadeus.client_id = NotSet
    /\ amadeus.client_secret = KeyValue
    /\ ToolsCalled = {"search_airports", "search_flights", "get_airport_info"}

(***************************************************************************)
(* Properties of the start of the script (SpecStartup).                     *)
(***************************************************************************)
HasStarted == startup # None

\* The credentials each script reads.
ReadBy(by) ==
    CASE by = "main" -> {"GROQ_API_KEY", "EXA_API_KEY", "AMADEUS_CLIENT_ID",
                         "AMADEUS_CLIENT_SECRET"}
      [] by = "test" -> {"GROQ_API_KEY", "EXA_API_KEY", "SERPAPI_API_KEY"}
      [] by = "globe" -> {"GROQ_API_KEY", "EXA_API_KEY"}

MissingCredentialsOf(by) == {name \in ReadBy(by) : Falsy(environ[name])}

NamesIn(names) == {names[i] : i \in 1..Len(names)}

\* C16 as stated: the start completes, a warning is shown exactly when a
\* credential is missing, and it names exactly the missing credentials.
C16_WarningNamesMissing ==
    HasStarted =>
        /\ startup.completed
        /\ startup.warning <=> MissingCredentialsOf(startup.by) # {}
        /\ startup.warning =>
              NamesIn(startup.missing_keys) = MissingCredentialsOf(startup.by)

AmadeusNames == {"AMADEUS_CLIENT_ID", "AMADEUS_CLIENT_SECRET"}

\* What the warning lists: the missing credentials, the two Amadeus ones
\* standing together under one entry.
Reported(by) ==
    (MissingCredentialsOf(by) \ AmadeusNames)
        \cup (IF MissingCredentialsOf(by) \cap AmadeusNames # {}
              THEN {AmadeusPair} ELSE {})

\* C16 (amended): the start completes under every combination of
\* credentials; a warning is shown exactly when a credential the script reads
\* is missing; it lists each missing one of GROQ_API_KEY, EXA_API_KEY and
\* SERPAPI_API_KEY once, and main.py reports a missing Amadeus id or secret
\* by the single entry "AMADEUS_CLIENT_ID and/or AMADEUS_CLIENT_SECRET".
C16_WarningListsMissing ==
    HasStarted =>
        /\ startup.completed
        /\ startup.warning <=> MissingCredentialsOf(startup.by) # {}
        /\ NamesIn(startup.missing_keys) = Reported(startup.by)
        /\ Len(startup.missing_keys) = Cardinality(Reported(startup.by))

\* test.py started with the SerpAPI key set to the empty string and the
\* other keys present.
C16_Witness ==
    /\ HasStarted
    /\ startup.by = "test"
    /\ environ.SERPAPI_API_KEY = EmptyValue
    /\ environ.GROQ_API_KEY = KeyValue
    /\ startup.missing_keys = <<"SERPAPI_API_KEY">>

\* The history grew by exactly one assistant entry.
AssistantAppended(history, history_after) ==
    /\ Len(history_after) = Len(history) + 1
    /\ IsPrefix(history, history_after)
    /\ history_after[Len(history_after)].role = "assistant"

\* C17: an action runs to its end before another is accepted: between the
\* user-entry append of an action and its assistant-entry append (or its
\* failure) the only step taken is the end of that same action; it writes at
\* most the assistant entry to its own history and nothing to the other.
C17_NoInterleavedWriters ==
    [][pc # "idle" =>
          /\ pc' = "idle"
          /\ pc = "plan_call" =>
                /\ chat_messages' = chat_messages
                /\ messages' = messages \/ AssistantAppended(messages, messages')
          /\ pc = "chat_call" =>
                /\ messages' = messages
                /\ chat_messages' = chat_messages
                      \/ AssistantAppended(chat_messages, chat_messages')]_vars

\* A chat call is in flight after a complete itinerary submission.
C17_Witness ==
    /\ pc = "chat_call"
    /\ Len(messages) = 2
    /\ Len(chat_messages) = 1

(***************************************************************************)
(* Properties of the PDF file name (SpecFilename).                          *)
(***************************************************************************)
FilenameBuilt == fn_out # None

Pow10(n) == IF n = 0 THEN 1 ELSE IF n = 1 THEN 10 ELSE IF n = 2 THEN 100
            ELSE IF n = 3 THEN 1000 ELSE IF n = 4 THEN 10000 ELSE IF n = 5 THEN 100000
            ELSE IF n = 6 THEN 1000000 ELSE 10000000

\* YYYYMMDD: the eight decimal digits of year * 10000 + month * 100 + day.
YYYYMMDD(date) ==
    LET n == date.year * 10000 + date.month * 100 + date.day IN
    [i \in 1..8 |-> Digit((n \div Pow10(8 - i)) % 10)]

\* C18: the file name is the destination with every space replaced by "_"
\* (or "travel_plan" for an empty destination), then "_itinerary_", the
\* current date as YYYYMMDD and ".pdf".
C18_FilenameEncodesDestinationAndDate ==
    FilenameBuilt =>
        LET dest == fn_in.destination
            n == IF dest = << >> THEN 1 ELSE Len(dest)
            name == fn_out.filename IN
        /\ Len(name) = n + 10
        /\ IF dest = << >> THEN name[1] = "travel_plan"
           ELSE \A i \in 1..n : name[i] = (IF dest[i] = " " THEN "_" ELSE dest[i])
        /\ name[n + 1] = "_itinerary_"
        /\ SubSeq(name, n + 2, n + 9) = YYYYMMDD(fn_in.now)
        /\ name[n + 10] = ".pdf"

\* A destination with two spaces, named on a day of a one-digit month.
C18_Witness ==
    /\ FilenameBuilt
    /\ fn_in.destination = <<" ", "N", " ">>
    /\ fn_in.now = Date(2025, 1, 5)
    /\ fn_out.filename = <<"_", "N", "_", "_itinerary_", "2", "0", "2", "5", "0", "1",
                           "0", "5", ".pdf">>

DayNumber(date) == date.year * 10000 + date.month * 100 + date.day
ReturnBeforeDeparture == DayNumber(end_date) < DayNumber(start_date)

\* The form is on screen and the model's bound leaves room for a submission.
CanSubmit == pc = "idle" /\ groq_api_key /\ Len(messages) < 2 * MaxPlans

\* C19: a submission is accepted (the user entry is appended and the agent
\* is called) exactly when the destination is not empty, whatever the dates
\* are; one with an empty destination appends nothing and calls no agent, and
\* the prompt of an agent call or of a user entry is never the empty string.
C19_PresenceCheckOnly ==
    /\ [](CanSubmit => (ENABLED GeneratePlan <=> destination # << >>))
    /\ [](pc = "plan_call" =>
            /\ user_prompt # << >>
            /\ messages[Len(messages)] = Turn("user", user_prompt))
    /\ [](\A i \in 1..Len(messages) :
            messages[i].role = "user" => messages[i].content # << >>)
    /\ [][(pc = "idle" /\ destination = << >>) =>
            /\ messages' = messages
            /\ pc' # "plan_call"]_vars

\* A submission whose return date is earlier than its departure date was
\* accepted: its agent call is in flight.
C19_Witness ==
    /\ pc = "plan_call"
    /\ ReturnBeforeDeparture
    /\ agent_runs = 1
    /\ Len(messages) = 1

\* C20: the display shows exactly the pairs (messages[i], messages[i+1]) for
\* even i with i+1 < length (0-based), so the trailing entry of a history of
\* odd length is not shown; and a run of the script that only renders shows
\* no error.
C20_PairsOnlyTrailingDropped ==
    /\ [](pc = "idle" =>
            /\ Len(displayed) = Len(messages) \div 2
            /\ \A k \in 1..Len(displayed) :
                  /\ displayed[k].query = messages[2 * k - 1].content
                  /\ displayed[k].response = messages[2 * k].content)
    /\ [][(pc = "idle" /\ pc' = "idle") => st_error' = st_error]_vars

\* A history of three entries (a failed submission, then a successful one)
\* rendered as one pair, after a render that presses no button.
C20_Witness ==
    /\ pc = "idle"
    /\ Len(messages) = 3
    /\ Len(displayed) = 1
    /\ st_error = 1
    /\ destination = << >>

(***************************************************************************)
(* Further properties of get_pdf_download_link (SpecPdf).                   *)
(***************************************************************************)
TextBlocks(document) == SelectSeq(ContentBlocks(document), IsTextBlock)

\* C21: the line-by-line paragraphs are added exactly when the parse created
\* no element (only the 4 header elements stand): then they are one per
\* non-blank line; a text that yields a recognized tag gets an element from
\* the parse and no line-by-line paragraph; and no line is rendered twice:
\* the text blocks are never more than the non-blank lines.  (The last part
\* fails on a list whose items are separated by a blank line: each item is
\* found as an li and again as the p nested in it.)
C21_FallbackIffNothingParsed ==
    PdfLink =>
        LET text == pdf_in.markdown_text IN
        /\ FoundTags # << >> => (ParsedElements # << >> /\ AddedBlocks = << >>)
        /\ ParsedElements # << >> => AddedBlocks = << >>
        /\ ParsedElements = << >> => AddedBlocks = LinePerParagraph(NonBlankLines(text))
        /\ Len(TextBlocks(pdf_out.result.document)) <= Len(NonBlankLines(text))

(***************************************************************************)
(* Further properties of AmadeusFlightToolsSDK (SpecAmadeus).               *)
(***************************************************************************)
IsErrorObject(value) == DOMAIN value = {"error"}
IsData(value) == DOMAIN value = {"data"}

\* C22: every call of the three tools returns structured data or an error
\* object, and none raises to its caller, however the call to the amadeus
\* Client ended.
C22_NeverRaises ==
    \A i \in 1..Len(tool_out) :
        /\ tool_out[i].kind = "return"
        /\ IsData(tool_out[i].value) \/ IsErrorObject(tool_out[i].value)

(***************************************************************************)
(* Further properties of the session (Spec).                                *)
(***************************************************************************)
\* C23: without the GROQ key both agents are None and planning and chat are
\* disabled: whatever the user does, no agent call is made, no call is in
\* flight and both histories stay empty.
C23_NoKeyNoAgentCall ==
    ~groq_api_key =>
        /\ agent_runs = 0
        /\ pc = "idle"
        /\ messages = << >>
        /\ chat_messages = << >>
        /\ displayed = << >>

\* The script ran without the key and showed that the features are unavailable.
C23_Witness == ~groq_api_key /\ unavailable

\* C24: every accepted submission completes, given that the agent call
\* returns or raises: while it is pending no other action is processed, it
\* ends with the assistant entry appended or with an error shown, and after
\* that the next interaction is accepted.
C24_SubmissionCompletes ==
    /\ (pc = "plan_call") ~> (pc = "idle" /\ ENABLED EditDestination)
    /\ [][pc = "plan_call" =>
            /\ pc' = "idle"
            /\ chat_messages' = chat_messages
            /\ destination' = destination
            /\ \/ /\ Len(messages') = Len(messages) + 1
                  /\ messages'[Len(messages')].role = "assistant"
                  /\ st_error' = st_error
               \/ /\ messages' = messages
                  /\ st_error' = st_error + 1]_vars

\* Two submissions have completed, one with an error and one with an answer.
C24_Witness ==
    /\ pc = "idle"
    /\ chat_messages = << >>
    /\ agent_runs = 2
    /\ st_error = 1
    /\ Len(messages) = 3
    /\ messages[3].role = "assistant"

\* The assistant entry that follows the user entry at index i of the history
\* is the answer to that entry's prompt: the handler appends it right after
\* the call made with that prompt.
AnswerTo(history, query, response) ==
    \E i \in 1..(Len(history) - 1) :
        /\ history[i] = Turn("user", query)
        /\ history[i + 1] = Turn("assistant", response)

\* C25: after any sequence of submissions, failed ones included, every
\* displayed pair shows a query with the assistant answer produced for it.
C25_PairShowsAnswerToItsQuery ==
    \A k \in 1..Len(displayed) :
        AnswerTo(messages, displayed[k].query, displayed[k].response)

\* Every assistant entry of the history stands right after a user entry.
AssistantFollowsUser(history) ==
    \A i \in 1..Len(history) :
        history[i].role = "assistant" => (i > 1 /\ history[i - 1].role = "user")

\* The step appends an assistant entry right after the user entry that holds
\* the prompt of the agent call in flight.
AnswersPromptInFlight(history, after) ==
    Len(after) > Len(history) /\ after[Len(after)].role = "assistant" =>
        /\ Len(after) = Len(history) + 1
        /\ history # << >>
        /\ history[Len(history)] = Turn("user", user_prompt)

\* C26: in both histories every assistant entry is immediately preceded by the
\* user entry whose text was the prompt of the agent call that produced it: an
\* assistant entry is never first and two assistant entries are never adjacent.
C26_AssistantAfterItsPrompt ==
    /\ [](AssistantFollowsUser(messages) /\ AssistantFollowsUser(chat_messages))
    /\ [][/\ AnswersPromptInFlight(messages, messages')
          /\ AnswersPromptInFlight(chat_messages, chat_messages')]_vars

\* An answer stands in each history, the travel-plan one after a failed
\* submission.
C26_Witness ==
    /\ Len(messages) = 3
    /\ messages[3].role = "assistant"
    /\ Len(chat_messages) = 2
    /\ chat_messages[2].role = "assistant"

Drawn == {k \in 1..Len(rendered) : ~rendered[k].download_link.raised}

\* The pair's file name, document title and date label are built from the
\* form fields as they stand in this run.
FromCurrentFields(drawn) ==
    /\ drawn.filename =
          (IF destination # << >> THEN str_replace(destination, " ", "_")
           ELSE <<"travel_plan">>) \o <<"_itinerary_">> \o drawn.today_date \o <<".pdf">>
    /\ drawn.download_link.download = drawn.filename
    /\ drawn.download_link.document[1].text = <<"Travel Itinerary to">> \o destination
    /\ drawn.travel_dates = travel_dates_label(start_date, end_date)
    /\ drawn.download_link.document[3].text = <<"Travel Dates:">> \o drawn.travel_dates

NoFetchSucceeds ==
    \A u \in UrlsOf(pdf_in.markdown_text) : pdf_in.net[u].status # "ok"

\* What the other copy of the renderer gives for the same arguments.
OtherCopy ==
    IF pdf_out.by = "test"
    THEN globe_get_pdf_download_link(pdf_in.markdown_text, pdf_in.filename,
             pdf_in.destination, pdf_in.travel_dates, pdf_in.net, pdf_in.build_ok)
    ELSE get_pdf_download_link(pdf_in.markdown_text, pdf_in.filename,
             pdf_in.destination, pdf_in.travel_dates, pdf_in.net, pdf_in.build_ok)

\* The block sequence of a call: the document it built, or that it raised.
BlockSequence(result) == IF result.raised THEN <<"raised">> ELSE result.document

\* C29: for every markdown input in which no image fetch succeeds, the
\* renderer of src/globe.py and the renderer of src/test.py give the same
\* block sequence.
C29_CopiesAgreeWithoutImages ==
    PdfDone /\ NoFetchSucceeds =>
        BlockSequence(pdf_out.result) = BlockSequence(OtherCopy)

\* The renderer of src/test.py met an image reference among text, its fetch
\* was answered with an error status, and the document was built.
C29_Witness ==
    /\ PdfLink
    /\ pdf_out.by = "test"
    /\ NoFetchSucceeds
    /\ \E i \in 1..Len(FoundTags) :
          IsImg(FoundTags[i]) /\ pdf_in.net[FoundTags[i].src].status = "non200"
    /\ Len(ContentBlocks(pdf_out.result.document)) >= 2

(***************************************************************************)
(* Properties of construct_query (SpecQuery).                               *)
(***************************************************************************)
QueryDone == q_out # None

Closing(by) == IF by = "main" THEN ClosingPlain ELSE ClosingExa

\* The clauses of a prompt in their order, each by the words that open it.
ClauseOrder(by) ==
    <<"Plan a trip to ", " for ", " travelers", " departing from ", " from ", " with a ",
      " budget in INR", ". We're interested in: ", ". We prefer staying in ",
      ImagesRequest, ". Additional notes: ", Closing(by)>>

ClauseWords == {ClauseOrder("test")[i] : i \in 1..12} \cup {ClosingPlain}

\* An optional clause belongs in the prompt when its field is set; the others
\* always do.
Expected(clause, by) ==
    CASE clause = " departing from " -> q_in.origin # << >>
      [] clause = ". We're interested in: " -> q_in.interests # << >>
      [] clause = ". We prefer staying in " -> q_in.accommodation # "Any"
      [] clause = ImagesRequest -> by = "test" /\ q_in.include_images
      [] clause = ". Additional notes: " -> q_in.additional_notes # << >>
      [] OTHER -> TRUE

\* The tokens that follow the k-th token of the query, n of them.
Following(query, k, n) == SubSeq(query, k + 1, k + n)

\* C30: construct_query returns "" exactly when the destination is empty;
\* otherwise the prompt has its clauses in the one fixed order (destination and
\* traveler count, origin, date range and budget, interests, accommodation,
\* image request in src/test.py, additional notes, closing instruction), the
\* mandatory ones always and each optional one exactly when its field is set.
C30_ClausesInOrder ==
    QueryDone =>
        LET query == q_out.query
            by == q_out.by
        IN /\ query = << >> <=> q_in.destination = << >>
           /\ q_in.destination # << >> =>
                 /\ SelectSeq(query, LAMBDA t : t \in ClauseWords)
                       = SelectSeq(ClauseOrder(by), LAMBDA c : Expected(c, by))
                 /\ Following(query, 1, Len(q_in.destination)) = q_in.destination
                 /\ query[Len(query)] = Closing(by)
                 /\ \A k \in 1..Len(query) :
                       /\ query[k] = " departing from " =>
                             Following(query, k, Len(q_in.origin)) = q_in.origin
                       /\ query[k] = ". We prefer staying in " =>
                             query[k + 1] = q_in.accommodation
                       /\ query[k] = ". Additional notes: " =>
                             Following(query, k, Len(q_in.additional_notes))
                                 = q_in.additional_notes

\* src/test.py built a prompt from a form with every optional field set.
C30_Witness ==
    /\ QueryDone
    /\ q_out.by = "test"
    /\ q_in.destination # << >>
    /\ q_in.origin # << >>
    /\ Len(q_in.interests) = 2
    /\ q_in.accommodation # "Any"
    /\ q_in.include_images
    /\ q_in.additional_notes # << >>
    /\ Len(SelectSeq(q_out.query, LAMBDA t : t \in ClauseWords)) = 12

====
